---- MODULE Spec2Model ----
(***************************************************************************)
(* SkribblAI: the game-session state machine of GameRoom, as run by every  *)
(* connected client against the shared store (games / game_players rows)   *)
(* and the row-level change feed.                                          *)
(*                                                                         *)
(* Time is abstract: a timer is modelled by whether its remaining time is  *)
(* still positive, and its expiry is an event that may happen at any       *)
(* moment while the timer runs.  A handler's store write, its local        *)
(* setState calls and the React effects they trigger form one step.        *)
(***************************************************************************)
EXTENDS Integers, Sequences, FiniteSets, Bags, TLC

\* ---------------------------------------------------------------- bounds
NumUsers == 2
MaxShowdowns == 1
MaxInFlight == 3
MaxTime == 1
MaxPending == 1
MaxJoins == 1
MaxStart == 1
MaxElapsed == 85
MaxChat == 2
MaxStrokes == 2
MaxRedeliver == 1
MaxFailures == 1
MaxSkew == 1
MaxFetches == 2
MaxGestures == 2
MaxSamples == 2
MaxInk == 2
CanvasWidth == 2
CanvasHeight == 2

\* ------------------------------------------------------ program constants
DefaultMaxRounds == 15
PlaceholderMaxRounds == 1
ChoiceCount == 3
DefaultShowdowns == 3
\* The round time the lobby preselects.
DefaultRoundDuration == 60
\* The lowest option of the lobby's Max Players picker.
MaxPlayersOption == 2
\* The round times the lobby offers, and the default of a row without one.
RoundDurations == {40, 50, 60, 70, 80}

Users == 1..NumUsers
NoUser == 0
NoTime == -1
NoScore == -1
NoWord == ""

\* The word bank served by loadWordList (public/words.txt).
WordList == <<"Apple", "boat", "cat", "dog">>

\* A word bank of just the three words a drawer is offered.
ShortList == <<"Apple", "boat", "cat">>

\* String.prototype.toLowerCase on the words of the bank.
ToLowerCase(w) ==
  CASE w = "Apple" -> "apple"
    [] w = "Boat" -> "boat"
    [] w = " Boat " -> " boat "
    [] OTHER -> w

\* String.prototype.trim on the texts a user types.
Trim(t) ==
  CASE t = " Boat " -> "Boat"
    [] t = " boat " -> "boat"
    [] t = " " -> ""
    [] OTHER -> t

\* The texts typed into the chat box besides the word the client shows.
TypedTexts == {" Boat ", "cat", " "}

\* The text stored for a correct guess, after the user's name.
Announcement == "guessed the word!"


\* used_words is an array the code only appends to and maps over; its order
\* is never read, so the model keeps its contents as a bag of words.
NoWords == EmptyBag
AppendWord(b, w) == b (+) SetToBag({w})

\* new Set(used_words.map((w) => w.toLowerCase()))
LowerSet(b) == {ToLowerCase(w) : w \in BagToSet(b)}

ActivePhases == {"choosing_word", "playing", "round_summary"}

NoPlayer == [user_id |-> NoUser, score |-> 0, joined_at |-> 0]

\* What a client keeps of a chat_messages row.  The effects read only the
\* rows with is_correct, and of those user_id and created_at, so the model
\* keeps the correct entries of the messages list, in the list's order.
NoMessage == [id |-> 0, user_id |-> NoUser, created_at |-> NoTime]
Entry(id, row) == [id |-> id, user_id |-> row.user_id, created_at |-> row.created_at]

\* Clocks that agree with the store's.
NoSkew == [u \in Users |-> 0]

\* No request of the client is under way.
NoAwait == [gameStatus |-> "null", currentDrawer |-> NoUser]

\* The pixels of the canvas and the colours a pixel takes.
Pixels == (0..(CanvasWidth - 1)) \X (0..(CanvasHeight - 1))
Black == [r |-> 0, g |-> 0, b |-> 0]
White == [r |-> 255, g |-> 255, b |-> 255]
PixelColours == {Black, White}
NoRgb == [r |-> -1, g |-> -1, b |-> -1]

\* The colour strings floodFill is called with.
FillColours == {"#000000", "#ffffff", "white"}

\* hexToRgb: the three bytes of a six-digit hex colour, null for any other
\* string.
hexToRgb(hex) ==
  CASE hex = "#000000" -> Black
    [] hex = "#ffffff" -> White
    [] OTHER -> NoRgb

\* No floodFill call is under way.
NoFill ==
  [running |-> FALSE, data |-> [p \in Pixels |-> White], stack |-> <<>>,
   start |-> NoRgb, fillColorRGB |-> NoRgb]

\* The most entries the work stack is let grow to.
StackCap == 4 * Cardinality(Pixels) + 4

\* The null of currentPathIdRef; a path id is the client that made it and
\* its number among those the client made.
NoPath == <<>>

\* A DrawingCanvas that is not rendered: no path, no subscription, no
\* fetchAndRenderStrokes under way.  reloaded is history: whether the
\* canvas has handled a DELETE notification since it was mounted.
\* The live ink: gesture is currentPathIdRef (NoPath for null), gestures and
\* sent count the path ids made and the samples sent, ink holds the
\* broadcast notices on their way to this client, prev the path ids of
\* remotePathMapRef, lines the path id of every temporary fabric.Line on
\* the canvas, lastInk the time the last notice was handled.  ended is
\* history: the path ids whose draw_end notice this client handled or
\* did not get.
NoCanvas ==
  [paths |-> <<>>, feed |-> <<>>, fetches |-> 0, reloaded |-> FALSE,
   gesture |-> NoPath, gestures |-> 0, sent |-> 0, ink |-> <<>>, prev |-> {},
   lines |-> <<>>, lastInk |-> 0, ended |-> {}]

\* The canvas cv when it is not rendered: crypto.randomUUID goes on making
\* path ids that were not made before.
Unmounted(cv) == [NoCanvas EXCEPT !.gestures = cv.gestures]

\* fetchAndRenderStrokes up to its select: the canvas is cleared and the
\* request is under way.
Fetching(cv) == [cv EXCEPT !.paths = <<>>, !.lines = <<>>, !.fetches = @ + 1]

\* The postgres_changes notifications of the drawing_strokes table.
InsertNote(id) == [t |-> "INSERT", id |-> id]
DeleteNote(id) == [t |-> "DELETE", id |-> id]

VARIABLES
  game,          \* the games row of this room
  joining,       \* the users whose joinGame in the lobby has passed its checks
  fill,          \* the floodFill call under way: image data, work stack, colours
  gamePlayers,   \* the game_players rows of this room
  joinSeq,       \* serial of the last joined_at handed out by the store
  now,           \* wall clock
  feed,          \* per client: change notifications not yet delivered
  mounted,       \* per client: GameRoom is open, loaded and subscribed
  client,        \* per client: the GameRoom component's state
  pendingSummary, \* per client: 5 s timeouts armed by endRound, not yet fired
  turnsPlayed,   \* history: round and drawer of every Playing phase entered
  autoPicked,    \* history: the stored word was picked by the word-choice timer
  scoring,       \* one correct guess: its inputs and the points computed for it
  chat,          \* the chat_messages rows of this room, in insertion order
  pendingScore,  \* per client: the scores its sendMessage calls are about to store
  strokes,       \* the ids of the drawing_strokes rows of this room, by created_at
  redelivered,   \* history: chat notifications handed over more than once
  detected,      \* history: the last call of endRound by an all-guessed effect
  tracked,       \* whether the guess tracker of the clients is followed
  wordList,      \* the word list every client has loaded
  capacity,      \* the number of notifications the feeds hold at a time
  awaited,       \* per client: what its endRound does once its update has returned
  skew,          \* per client: how far its clock is ahead of the store's
  reentered,     \* history: the users who entered the room again with their row
  failures,      \* history: the number of games updates that failed
  strokeSeq,     \* serial of the last id handed out to a drawing_strokes row
  canvas         \* per client: the paths on its DrawingCanvas and its strokes feed

vars == <<game, gamePlayers, joinSeq, now, feed, mounted, client, pendingSummary,
          turnsPlayed, autoPicked, scoring, chat, pendingScore, strokes, redelivered,
          detected, tracked, wordList, capacity, awaited, skew, joining, fill, reentered, failures, strokeSeq,
          canvas>>

\* ------------------------------------------------------------ pure helpers
\* The points of the old fixed 20/40/60 second thresholds.
calculateScore_Fixed(elapsedSeconds, roundDuration) ==
  IF elapsedSeconds <= 20 THEN 400
  ELSE IF elapsedSeconds <= 40 THEN 300
  ELSE IF elapsedSeconds <= 60 THEN 200
  ELSE 100

\* calculateScore: quarterDuration = roundDuration / 4 is not an integer in
\* general, so both sides of each comparison are kept in quarter seconds.
calculateScore(elapsedSeconds, roundDuration) ==
  LET quarterDuration4 == roundDuration
  IN IF 4 * elapsedSeconds <= quarterDuration4 THEN 400
     ELSE IF 4 * elapsedSeconds <= quarterDuration4 * 2 THEN 300
     ELSE IF 4 * elapsedSeconds <= quarterDuration4 * 3 THEN 200
     ELSE 100

\* The points sendMessage adds to the stored score for a correct guess sent
\* at sentAt by a client whose round started at startedAt.
GainedOnSend(startedAt, sentAt, roundDuration) ==
  IF startedAt # NoTime /\ roundDuration # 0
  THEN calculateScore(sentAt - startedAt, roundDuration)
  ELSE 100

\* The points the round summary shows for a correct entry created at
\* createdAt.
GainedInSummary(startedAt, createdAt, roundDuration) ==
  IF startedAt # NoTime /\ roundDuration # 0
  THEN calculateScore(createdAt - startedAt, roundDuration)
  ELSE 0
Min(a, b) == IF a < b THEN a ELSE b

\* The players sorted by joined_at, the last to join first.
SortedPlayers_Latest(ps) ==
  CHOOSE s \in [1..Cardinality(ps) -> ps] :
    /\ \A i, j \in 1..Cardinality(ps) : i < j => s[i].joined_at > s[j].joined_at

\* [...players].sort((a, b) => joined_at(a) - joined_at(b))
SortedPlayers(ps) ==
  CHOOSE s \in [1..Cardinality(ps) -> ps] :
    /\ \A i, j \in 1..Cardinality(ps) : i < j => s[i].joined_at < s[j].joined_at

\* `game?.round || 1`, `game?.max_rounds || 15`, `game?.used_words || []`
RoundOf(g) == IF g.status = "null" \/ g.round = 0 THEN 1 ELSE g.round
MaxRoundsOf(g) ==
  IF g.status = "null" \/ g.max_rounds = 0 THEN DefaultMaxRounds ELSE g.max_rounds
UsedWordsOf(g) == IF g.status = "null" THEN NoWords ELSE g.used_words
\* `game?.showdowns || 3`
ShowdownsOf(g) ==
  IF g.status = "null" \/ g.showdowns = 0 THEN DefaultShowdowns ELSE g.showdowns

\* getNextDrawer with the index taken from nextRound instead of nextRound - 1.
getNextDrawer_OffByOne(g, ps) ==
  IF g.status = "null" \/ ps = {} THEN NoPlayer
  ELSE LET sortedPlayers == SortedPlayers(ps)
           nextRound == RoundOf(g) + 1
           playersInGame == Cardinality(ps)
           playerIndexInShowdown == nextRound % playersInGame
       IN sortedPlayers[playerIndexInShowdown + 1]

\* getNextDrawer: the player at index (nextRound - 1) % players.length of
\* the local players sorted by join time; null without game or players.
getNextDrawer(g, ps) ==
  IF g.status = "null" \/ ps = {} THEN NoPlayer
  ELSE LET sortedPlayers == SortedPlayers(ps)
           nextRound == RoundOf(g) + 1
           playersInGame == Cardinality(ps)
           playerIndexInShowdown == (nextRound - 1) % playersInGame
       IN sortedPlayers[playerIndexInShowdown + 1]

\* The permutations of the index set S.
RECURSIVE IndexOrders(_)
IndexOrders(S) ==
  IF S = {} THEN {<<>>}
  ELSE UNION {{<<x>> \o p : p \in IndexOrders(S \ {x})} : x \in S}

\* The orders [...source].sort(() => 0.5 - Math.random()) can produce.
Shuffles(source) ==
  {[i \in 1..Len(source) |-> source[p[i]]] : p \in IndexOrders(1..Len(source))}

IsUnused(w, uw) == ToLowerCase(w) \notin uw

\* The word buttons: the code reads wordChoices[0] (the auto pick) and
\* otherwise only offers every element, so the model keeps the first choice
\* first and lists the others in the order of the word list.
Presented(wl, choices) ==
  IF Len(choices) <= 1 THEN choices
  ELSE <<choices[1]>> \o
       SelectSeq(wl, LAMBDA w : \E i \in 2..Len(choices) : choices[i] = w)

\* The word-choices effect's computation: filter, fall back to the whole
\* list below 3 available words, shuffle, filter again, keep 3.
GenerateChoices(wl, uw) ==
  LET available == SelectSeq(wl, LAMBDA w : IsUnused(w, uw))
      source == IF Len(available) >= ChoiceCount THEN available ELSE wl
  IN {LET choices == SelectSeq(shuffled, LAMBDA w : IsUnused(w, uw))
      IN Presented(wl, SubSeq(choices, 1, Min(ChoiceCount, Len(choices)))) :
        shuffled \in Shuffles(source)}

\* The word-choices effect: the values wordChoices can have after it ran.
WordChoicesEffect(u, gs, cd, wc, uw) ==
  IF gs = "choosing_word" /\ u = cd /\ wc = <<>> /\ Len(wordList) >= ChoiceCount
  THEN GenerateChoices(wordList, uw)
  ELSE IF gs # "choosing_word" /\ wc # <<>> THEN {<<>>} ELSE {wc}

\* The "mark this word as used locally" effect.
MarkUsedEffect(gs, cw, uw) ==
  IF gs = "playing" /\ cw # NoWord THEN uw \cup {ToLowerCase(cw)} ELSE uw

NullGame ==
  [status |-> "null", current_word |-> NoWord, current_drawer |-> NoUser,
   round |-> 0, max_rounds |-> 0, showdowns |-> 0, round_duration |-> 0,
   max_players |-> 0, round_started_at |-> NoTime,
   word_choice_started_at |-> NoTime, used_words |-> NoWords]

\* The row createGame inserts (Lobby): waiting, round 1, placeholder max_rounds.
NewGame(sd) ==
  [status |-> "waiting", current_word |-> NoWord, current_drawer |-> NoUser,
   round |-> 1, max_rounds |-> PlaceholderMaxRounds, showdowns |-> sd,
   round_duration |-> DefaultRoundDuration, max_players |-> MaxPlayersOption,
   round_started_at |-> NoTime, word_choice_started_at |-> NoTime,
   used_words |-> NoWords]

\* ------------------------------------------------------------ change feed
GameNote(g) == [t |-> "game", g |-> g, p |-> NoPlayer, m |-> NoMessage]
PlayerInsertNote(p) == [t |-> "pinsert", g |-> NullGame, p |-> p, m |-> NoMessage]
PlayerDeleteNote(p) == [t |-> "pdelete", g |-> NullGame, p |-> p, m |-> NoMessage]
\* An INSERT on chat_messages.  Only the notifications of correct entries
\* are kept: the handler's effect on the kept part of messages is nil for
\* the others.
ChatNote(m) == [t |-> "chat", g |-> NullGame, p |-> NoPlayer, m |-> m]
\* An UPDATE on game_players; its handler reads no payload.
PlayerUpdateNote == [t |-> "pupdate", g |-> NullGame, p |-> NoPlayer, m |-> NoMessage]

\* The store fans a notification out to every subscribed client.
Publish(f, subscribed, note) ==
  [u \in Users |-> IF subscribed[u] THEN Append(f[u], note) ELSE f[u]]

PublishAll(f, subscribed, notes) ==
  [u \in Users |-> IF subscribed[u] THEN f[u] \o notes ELSE f[u]]

\* The notifications of feed f still in flight to the clients of S.
RECURSIVE InFlight(_, _)
InFlight(f, S) ==
  IF S = {} THEN 0
  ELSE LET u == CHOOSE v \in S : TRUE IN Len(f[u]) + InFlight(f, S \ {u})

Subscribed(m) == {u \in Users : m[u]}

\* The feed f can carry one more notification to each client subscribed in m.
CanPublish(f, m) ==
  InFlight(f, Subscribed(m)) + Cardinality(Subscribed(m)) <= capacity

HasRoom(f) == CanPublish(f, mounted)

\* The feed f can carry k more notifications to each subscribed client.
HasRoomFor(f, k) ==
  k > 0 => InFlight(f, Subscribed(mounted)) + k * Cardinality(Subscribed(mounted))
             <= capacity

\* ----------------------------------------------------------- client state
\* The fields of the `game` state that the component reads back.
LocalGame(row) ==
  [status |-> IF row.status = "null" THEN "null" ELSE "loaded",
   round |-> row.round, max_rounds |-> row.max_rounds,
   showdowns |-> row.showdowns, round_duration |-> row.round_duration,
   used_words |-> row.used_words]

\* The useState initial values of GameRoom.  A timer field is TRUE while
\* its remaining time is positive.
FreshClient ==
  [game |-> LocalGame(NullGame), gameStatus |-> "waiting", currentDrawer |-> NoUser,
   currentWord |-> NoWord, players |-> {}, usedWords |-> {},
   wordChoices |-> <<>>, timeLeft |-> TRUE, wordChoiceTimeLeft |-> TRUE,
   roundSummaryTimeLeft |-> TRUE, messages |-> <<>>, correctGuessers |-> {},
   stillGuessing |-> {}, currentRoundStartedAt |-> NoTime]

\* The games-row handler of the subscription.  `running` is whether the
\* remaining time computed from the row's timestamp is still positive.
OnGameRow(c, row, running) ==
  LET c1 == [c EXCEPT !.game = LocalGame(row), !.gameStatus = row.status,
                      !.currentDrawer = row.current_drawer,
                      !.currentWord = row.current_word,
                      !.usedWords = LowerSet(row.used_words)]
  IN CASE row.status = "playing" ->
            [c1 EXCEPT !.timeLeft =
               IF row.round_started_at # NoTime THEN running ELSE TRUE,
                       !.currentRoundStartedAt =
               IF row.round_started_at # NoTime THEN row.round_started_at ELSE @]
       [] row.status = "choosing_word" ->
            [c1 EXCEPT !.wordChoiceTimeLeft =
               IF row.word_choice_started_at # NoTime THEN running ELSE TRUE]
       [] row.status = "round_summary" ->
            [c1 EXCEPT !.roundSummaryTimeLeft =
               IF row.round_started_at # NoTime THEN running ELSE TRUE]
       [] OTHER -> c1

\* The correct entries of the chat_messages rows, as a client keeps them.
CorrectEntries(rows) ==
  LET ids == SelectSeq([i \in 1..Len(rows) |-> i], LAMBDA i : rows[i].is_correct)
  IN [k \in 1..Len(ids) |-> Entry(ids[k], rows[ids[k]])]

\* fetchGameData: the game row, the players and the messages it read.
OnFetch(c, row, rows, msgs, running) ==
  LET c1 == [c EXCEPT !.game = LocalGame(row), !.gameStatus = row.status,
                      !.currentDrawer = row.current_drawer,
                      !.currentWord = row.current_word,
                      !.usedWords = LowerSet(row.used_words),
                      !.players = rows,
                      !.messages = CorrectEntries(msgs)]
      c2 == IF row.status = "playing" /\ row.round_started_at # NoTime
            THEN [c1 EXCEPT !.timeLeft = running,
                            !.currentRoundStartedAt = row.round_started_at]
            ELSE c1
      c3 == IF row.status = "choosing_word" /\ row.word_choice_started_at # NoTime
            THEN [c2 EXCEPT !.wordChoiceTimeLeft = running]
            ELSE IF row.status # "choosing_word"
                 THEN [c2 EXCEPT !.wordChoiceTimeLeft = TRUE] ELSE c2
  IN IF row.status = "round_summary" /\ row.round_started_at # NoTime
     THEN [c3 EXCEPT !.roundSummaryTimeLeft = running] ELSE c3

\* Whether the remaining time a handler computes from row is a free input.
TimedRow(row) ==
  \/ row.status \in {"playing", "round_summary"} /\ row.round_started_at # NoTime
  \/ row.status = "choosing_word" /\ row.word_choice_started_at # NoTime

RunningInputs(row) == IF TimedRow(row) THEN BOOLEAN ELSE {TRUE}

\* A timer value is read only in its own phase and every entry into that
\* phase sets it, so outside that phase the model keeps its reset value.
\* The same holds for currentRoundStartedAt and the Playing phase: every
\* stored playing row carries round_started_at, and chooseWord sets it.
LiveTimers(c) ==
  [c EXCEPT !.currentRoundStartedAt = IF c.gameStatus = "playing" THEN @ ELSE NoTime,
            !.timeLeft = IF c.gameStatus = "playing" THEN @ ELSE TRUE,
            !.wordChoiceTimeLeft = IF c.gameStatus = "choosing_word" THEN @ ELSE TRUE,
            !.roundSummaryTimeLeft = IF c.gameStatus = "round_summary" THEN @ ELSE TRUE]

\* The players INSERT and DELETE handlers.
OnPlayerInsert(c, p) ==
  IF \E q \in c.players : q.user_id = p.user_id THEN c
  ELSE [c EXCEPT !.players = @ \cup {p}]

OnPlayerDelete(c, p) ==
  [c EXCEPT !.players = {q \in @ : q.user_id # p.user_id}]

\* The chat_messages INSERT handler: append, without looking for the entry.
OnChatInsert(c, m) == [c EXCEPT !.messages = Append(@, m)]

\* ------------------------------------------------- the guess tracker effects
\* The element of a one-element set.
Only(S) == CHOOSE x \in S : TRUE

Ids(players) == {p.user_id : p \in players}

\* The authors of the entries at or after the local round start that are
\* there more than once.
RoundGuessers_Repeated(c) ==
  {c.messages[i].user_id :
     i \in {j \in DOMAIN c.messages :
              /\ c.messages[j].created_at >= c.currentRoundStartedAt
              /\ \E k \in DOMAIN c.messages : k # j /\ c.messages[k] = c.messages[j]}}

\* The authors of all the correct entries.
RoundGuessers_All(c) == {c.messages[i].user_id : i \in DOMAIN c.messages}

\* The authors of the correct entries at or after the local round start.
RoundGuessers(c) ==
  {c.messages[i].user_id :
     i \in {j \in DOMAIN c.messages :
              c.messages[j].created_at >= c.currentRoundStartedAt}}

\* Whether the effect that initialises the tracking of a round runs and
\* sets the two sets: one of gameStatus, currentDrawer, players and
\* currentRoundStartedAt changed, and its condition holds.
InitTrackingRuns(prev, cur, ch) ==
  /\ \/ prev.gameStatus # cur.gameStatus
     \/ prev.currentDrawer # cur.currentDrawer
     \/ "players" \in ch
     \/ prev.currentRoundStartedAt # cur.currentRoundStartedAt
  /\ cur.gameStatus = "playing" /\ cur.currentDrawer # NoUser

\* One commit and those that follow from it.  prev is the state of the
\* previous render, cur the state of this one, ch the states that were set
\* to a new object (players, messages, the two sets), t the client's clock.
\* The effects run in the order they are declared, each reading cur; of
\* several calls of one setter the last one wins.  fired is whether the
\* all-guessed effect has called endRound.  With at most three users the
\* all-guessed effect cannot hold in two successive renders of one commit.
RECURSIVE Render(_, _, _, _, _)
Render(prev, cur, ch, t, fired) ==
  LET depStatus == prev.gameStatus # cur.gameStatus
      depDrawer == prev.currentDrawer # cur.currentDrawer
      depStart == prev.currentRoundStartedAt # cur.currentRoundStartedAt
      depSets == "correctGuessers" \in ch \/ "stillGuessing" \in ch
      playing == cur.gameStatus = "playing"
      ids == Ids(cur.players)
      \* process correct guesses
      moved == IF /\ "messages" \in ch \/ depStatus \/ depStart \/ depSets
                  /\ playing /\ cur.currentRoundStartedAt # NoTime
               THEN RoundGuessers(cur) \cap cur.stillGuessing
               ELSE {}
      init == InitTrackingRuns(prev, cur, ch)
      \* update the tracking when players join or leave
      keptCorrect == cur.correctGuessers \cap ids
      keptStill == cur.stillGuessing \cap ids
      added == {id \in ids : /\ id # cur.currentDrawer
                             /\ id \notin keptCorrect
                             /\ id \notin keptStill}
      update == /\ depStatus \/ depDrawer \/ "players" \in ch
                /\ playing
                /\ \/ keptCorrect # cur.correctGuessers
                   \/ keptStill # cur.stillGuessing
                   \/ added # {}
      \* end the round when everyone has guessed
      allGuessed ==
        /\ \/ Cardinality(prev.stillGuessing) # Cardinality(cur.stillGuessing)
           \/ Cardinality(prev.correctGuessers) # Cardinality(cur.correctGuessers)
           \/ depStatus
        /\ playing
        /\ Cardinality(cur.stillGuessing) = 0
        /\ Cardinality(cur.correctGuessers) > 1
      next ==
        [cur EXCEPT
           !.correctGuessers =
              IF update THEN keptCorrect
              ELSE IF init THEN {cur.currentDrawer}
              ELSE IF moved # {} THEN @ \cup moved ELSE @,
           !.stillGuessing =
              IF update THEN keptStill \cup added
              ELSE IF init THEN ids \ {cur.currentDrawer}
              ELSE IF moved # {} THEN @ \ moved ELSE @,
           !.currentRoundStartedAt =
              IF depStatus /\ cur.gameStatus = "choosing_word" THEN NoTime
              ELSE IF init /\ @ = NoTime THEN t ELSE @]
      set == IF update \/ init \/ moved # {}
             THEN {"correctGuessers", "stillGuessing"} ELSE {}
  IN Only({IF n = cur /\ set = {}
            THEN [c |-> cur, fired |-> fired \/ allGuessed]
            ELSE Render(cur, n, set, t, fired \/ allGuessed) : n \in {next}})

\* No all-guessed effect has called endRound yet.
NoDetection == [by |-> NoUser, drawer |-> NoUser, started |-> NoTime, entries |-> 0]

\* ------------------------------------------------------------------- Init
InitPlayers(roster) == {[user_id |-> u, score |-> 0, joined_at |-> u] : u \in roster}

\* The room as created in the lobby, the users of roster joined in the
\* order of their ids, their clients loaded and in sync with the store.
InitRoom(roster, sd) ==
  /\ game = NewGame(sd)
  /\ gamePlayers = InitPlayers(roster)
  /\ joinSeq = NumUsers
  /\ now = 0
  /\ feed = [u \in Users |-> <<>>]
  /\ mounted = [u \in Users |-> u \in roster]
  /\ client = [u \in Users |->
                 IF u \in roster
                 THEN [FreshClient EXCEPT !.game = LocalGame(NewGame(sd)),
                                          !.players = InitPlayers(roster)]
                 ELSE FreshClient]
  /\ pendingSummary = [u \in Users |-> 0]
  /\ turnsPlayed = <<>>
  /\ autoPicked = FALSE
  /\ chat = <<>>
  /\ pendingScore = [u \in Users |-> <<>>]
  /\ strokes = <<>>
  /\ strokeSeq = 0
  /\ awaited = [u \in Users |-> NoAwait]
  /\ canvas = [u \in Users |-> NoCanvas]
  /\ redelivered = 0
  /\ detected = NoDetection
  /\ reentered = {}
  /\ failures = 0
  /\ joining = {}
  /\ fill = NoFill

\* No guess is being scored.
NoScoring ==
  [currentRoundStartedAt |-> NoTime, at |-> NoTime, round_duration |-> 0,
   gained |-> NoScore, shown |-> NoScore]

InitWith(roster, sd) ==
  InitRoom(roster, sd) /\ scoring = NoScoring /\ tracked = FALSE
  /\ capacity = MaxInFlight /\ skew = NoSkew
  /\ wordList = WordList

Init == \E sd \in 1..MaxShowdowns : InitWith(Users, sd)

\* ---------------------------------------------------------------- actions
\* The Playing phases entered by writing rows in order over status st.
RECURSIVE Turns(_, _, _)
Turns(tp, st, rows) ==
  IF rows = <<>> THEN tp
  ELSE LET g == Head(rows)
       IN Turns(IF g.status = "playing" /\ st # "playing"
                THEN Append(tp, [round |-> g.round, drawer |-> g.current_drawer])
                ELSE tp,
                g.status, Tail(rows))

\* Writes to the games row: unconditional `.update(...).eq("id", gameId)`,
\* each fanned out to every subscribed client.  f is the feed before the
\* writes, rows the rows stored one after the other.
WriteRows(rows, f, byTimer) ==
  /\ HasRoomFor(f, Len(rows))
  /\ game' = IF rows = <<>> THEN game ELSE rows[Len(rows)]
  /\ feed' = PublishAll(f, mounted, [i \in 1..Len(rows) |-> GameNote(rows[i])])
  /\ turnsPlayed' = Turns(turnsPlayed, game.status, rows)
  /\ autoPicked' = IF rows = <<>> THEN autoPicked ELSE byTimer /\ Len(rows) = 1

WriteGameAs(g, f, byTimer) == WriteRows(<<g>>, f, byTimer)

WriteGame(g, f) == WriteGameAs(g, f, FALSE)

\* What a handler did: the client state c it set, the states ch it set to a
\* new object, the rows it wrote to the games row, the 5 s timeouts it
\* armed and whether it deleted the drawing_strokes rows.
Handled(c, ch, rows, arm, cleared) ==
  [c |-> c, ch |-> ch, rows |-> rows, arm |-> arm, cleared |-> cleared]

\* endRound called in client state c while the stored row is g.
EndRoundCall(c, g) ==
  LET nextRound == RoundOf(c.game) + 1
      isGameFinished == nextRound > MaxRoundsOf(c.game)
      nextDrawer == getNextDrawer(c.game, c.players)
  IN IF isGameFinished
     THEN Handled([c EXCEPT !.gameStatus = "finished"], {},
                  <<[g EXCEPT !.status = "finished",
                              !.round_started_at = NoTime]>>, 0, TRUE)
     ELSE IF nextDrawer = NoPlayer
     THEN Handled(c, {}, <<>>, 0, TRUE)
     ELSE Handled([c EXCEPT !.currentDrawer = nextDrawer.user_id,
                            !.gameStatus = "round_summary",
                            !.roundSummaryTimeLeft = TRUE,
                            !.correctGuessers = {},
                            !.stillGuessing = {}],
                  {"correctGuessers", "stillGuessing"},
                  <<[g EXCEPT !.round = nextRound,
                              !.current_drawer = nextDrawer.user_id,
                              !.status = "round_summary",
                              !.round_started_at = now,
                              !.word_choice_started_at = NoTime]>>, 1, TRUE)

\* Client state c without its guess tracker.  While the room has no chat
\* entry, correctGuessers holds at most the drawer, so that the all-guessed
\* effect never calls endRound, and nothing else reads the tracker: the
\* specifications without sendMessage leave it at its initial value.
Untracked(c) ==
  [c EXCEPT !.messages = <<>>, !.correctGuessers = {}, !.stillGuessing = {},
            !.currentRoundStartedAt = NoTime]

\* GameRoom renders the DrawingCanvas while it shows a Playing phase.
ShowsCanvas(c) == c.gameStatus = "playing"

\* The clients whose DrawingCanvas is rendered and subscribed.
OpenCanvases == {v \in Users : mounted[v] /\ ShowsCanvas(client[v])}

\* The rows `select("*").eq("game_id", gameId)` may return for the stored
\* rows: the query has no ORDER BY, so any order of them.
FetchOrders(rows) ==
  {p \in [1..Len(rows) -> {rows[i] : i \in 1..Len(rows)}] :
     \A i \in 1..Len(rows) : \E j \in 1..Len(rows) : p[j] = rows[i]}

\* addStrokeToCanvas: the path of the row is added to the canvas.
AddStrokeToCanvas(paths, id) == Append(paths, id)

\* The notifications notes reach every open canvas of cv.
PublishStrokes(cv, notes) ==
  [v \in Users |-> IF v \in OpenCanvases
                   THEN [cv[v] EXCEPT !.feed = @ \o notes] ELSE cv[v]]

\* Every open canvas has room for n more notifications.
HasStrokeRoom(n) == \A v \in OpenCanvases : Len(canvas[v].feed) + n <= capacity

\* The DELETE notifications of the rows a delete by game_id removes.
DeleteNotes(rows) == [i \in 1..Len(rows) |-> DeleteNote(rows[i])]

\* The canvases after a handler of client u that sent the DELETE
\* notifications deletes: the canvas of u is mounted, and starts to load the
\* stored strokes, when the client comes to show a Playing phase, and unmounted
\* when it leaves it.
CanvasFollows(u, deletes) ==
  /\ HasStrokeRoom(Len(deletes))
  /\ canvas' = [PublishStrokes(canvas, deletes) EXCEPT
                  ![u] = IF ~ShowsCanvas(client'[u]) THEN Unmounted(@)
                         ELSE IF ~(mounted[u] /\ ShowsCanvas(client[u]))
                         THEN Fetching(Unmounted(@))
                         ELSE @]

\* The handler's outcome h of client u takes effect: the renders and their
\* effects run, the all-guessed effect's endRound included, and the writes
\* reach the store and the feed f.
Commit(u, h, f, byTimer) ==
  \E r \in {IF tracked THEN Render(client[u], h.c, h.ch, now, FALSE)
             ELSE [c |-> Untracked(h.c), fired |-> FALSE]} :
    \E c1 \in {[r.c EXCEPT !.usedWords =
                   MarkUsedEffect(r.c.gameStatus, r.c.currentWord, r.c.usedWords)]} :
      \E e \in {IF r.fired
                 THEN EndRoundCall(c1, IF h.rows = <<>> THEN game
                                       ELSE h.rows[Len(h.rows)])
                 ELSE Handled(c1, {}, <<>>, 0, FALSE)} :
        /\ WriteRows(h.rows \o e.rows, f, byTimer)
        /\ pendingSummary[u] + h.arm + e.arm <= MaxPending
        /\ pendingSummary' = [pendingSummary EXCEPT ![u] = @ + h.arm + e.arm]
        /\ strokes' = IF h.cleared \/ e.cleared THEN <<>> ELSE strokes
        /\ detected' = IF r.fired
                       THEN [by |-> u, drawer |-> r.c.currentDrawer,
                             started |-> r.c.currentRoundStartedAt,
                             entries |-> Len(chat)]
                       ELSE detected
        /\ \E wc \in WordChoicesEffect(u, e.c.gameStatus, e.c.currentDrawer,
                                      e.c.wordChoices, e.c.usedWords) :
             client' = [client EXCEPT ![u] = LiveTimers([e.c EXCEPT !.wordChoices = wc])]
        /\ CanvasFollows(u, IF h.cleared \/ e.cleared THEN DeleteNotes(strokes) ELSE <<>>)

\* startGame, from the Start Game button of the waiting screen.
StartGame(u) ==
  /\ mounted[u]
  /\ client[u].gameStatus = "waiting"
  /\ Cardinality(client[u].players) >= 2
  /\ LET c == client[u]
         firstPlayer == SortedPlayers(c.players)[1]
         totalRounds == ShowdownsOf(c.game) * Cardinality(c.players)
     IN Commit(u, Handled([c EXCEPT !.gameStatus = "choosing_word",
                                    !.currentWord = NoWord,
                                    !.currentDrawer = firstPlayer.user_id],
                          {},
                          <<[game EXCEPT !.status = "choosing_word",
                                         !.current_word = NoWord,
                                         !.current_drawer = firstPlayer.user_id,
                                         !.round = 1,
                                         !.max_rounds = totalRounds,
                                         !.word_choice_started_at = now,
                                         !.used_words = NoWords]>>, 0, FALSE),
               feed, FALSE)
  /\ UNCHANGED <<gamePlayers, joinSeq, now, scoring, mounted, chat, pendingScore,
                 redelivered, tracked, wordList, capacity, awaited, skew, joining, fill, reentered, failures, strokeSeq>>

\* chooseWord(word) called in client state c.  The timestamp is the
\* client's `new Date()`; chat rows get their created_at from the store.
ChooseWordBody(u, c, word, byTimer) ==
  /\ Commit(u, Handled([c EXCEPT !.currentWord = word,
                                 !.gameStatus = "playing",
                                 !.wordChoices = <<>>,
                                 !.timeLeft = TRUE,
                                 !.usedWords = @ \cup {ToLowerCase(word)},
                                 !.currentRoundStartedAt = now + skew[u]],
                       {},
                       <<[game EXCEPT !.current_word = word,
                                      !.status = "playing",
                                      !.round_started_at = now + skew[u],
                                      !.used_words =
                                         AppendWord(UsedWordsOf(c.game), word)]>>,
                       0, FALSE),
            feed, byTimer)
  /\ UNCHANGED <<gamePlayers, joinSeq, now, scoring, mounted, chat, pendingScore,
                 redelivered, tracked, wordList, capacity, awaited, skew, joining, fill, reentered, failures, strokeSeq>>

\* The drawer clicks one of the presented words.
ChooseWord(u) ==
  /\ mounted[u]
  /\ client[u].gameStatus = "choosing_word"
  /\ u = client[u].currentDrawer
  /\ \E i \in 1..Len(client[u].wordChoices) :
       ChooseWordBody(u, client[u], client[u].wordChoices[i], FALSE)

\* A variant of the automatic pick that takes the last choice.
AutoPick_Last(choices) == choices[Len(choices)]

\* The word the expired word-choice timer picks: wordChoices[0].
AutoPick(choices) == choices[1]

\* The word-choice timer reaches 0: the drawer's client picks the first choice.
WordChoiceTimerExpire(u) ==
  /\ mounted[u]
  /\ client[u].gameStatus = "choosing_word"
  /\ client[u].wordChoiceTimeLeft
  /\ LET c == [client[u] EXCEPT !.wordChoiceTimeLeft = FALSE]
     IN IF u = c.currentDrawer /\ Len(c.wordChoices) > 0
        THEN ChooseWordBody(u, c, AutoPick(c.wordChoices), TRUE)
        ELSE /\ Commit(u, Handled(c, {}, <<>>, 0, FALSE), feed, FALSE)
             /\ UNCHANGED <<gamePlayers, joinSeq, now, scoring, mounted, chat,
                            pendingScore, redelivered, tracked, wordList, capacity, awaited, skew, joining, fill, reentered, failures, strokeSeq>>

\* The update of the 5 s timeout and of the round_summary auto transition.
ToChoosingWord(g) ==
  [g EXCEPT !.status = "choosing_word",
            !.round_started_at = NoTime,
            !.word_choice_started_at = now]

\* endRound called in client state c.
EndRoundBody(u, c) ==
  /\ Commit(u, EndRoundCall(c, game), feed, FALSE)
  /\ UNCHANGED <<gamePlayers, joinSeq, now, scoring, mounted, chat, pendingScore,
                 redelivered, tracked, wordList, capacity, awaited, skew, joining, fill, reentered, failures, strokeSeq>>

\* The drawing round timer reaches 0 and calls endRound.
RoundTimerExpire(u) ==
  /\ mounted[u]
  /\ client[u].gameStatus = "playing"
  /\ client[u].timeLeft
  /\ EndRoundBody(u, [client[u] EXCEPT !.timeLeft = FALSE])

\* The 5 s setTimeout armed by endRound fires.
SummaryTimeoutFire(u) ==
  /\ pendingSummary[u] > 0
  /\ WriteGame(ToChoosingWord(game), feed)
  /\ pendingSummary' = [pendingSummary EXCEPT ![u] = @ - 1]
  /\ UNCHANGED <<detected, gamePlayers, joinSeq, now, scoring, mounted, client, chat,
                 pendingScore, strokes, redelivered, tracked, wordList, capacity, awaited, skew, joining, fill, reentered, failures, strokeSeq, canvas>>

\* The round summary timer reaches 0 and the auto transition effect runs.
SummaryTimerExpire(u) ==
  /\ mounted[u]
  /\ client[u].gameStatus = "round_summary"
  /\ client[u].roundSummaryTimeLeft
  /\ Commit(u, Handled([client[u] EXCEPT !.roundSummaryTimeLeft = FALSE], {},
                       <<ToChoosingWord(game)>>, 0, FALSE),
            feed, FALSE)
  /\ UNCHANGED <<gamePlayers, joinSeq, now, scoring, mounted, chat, pendingScore,
                 redelivered, tracked, wordList, capacity, awaited, skew, joining, fill, reentered, failures, strokeSeq>>

\* The round_summary auto transition effect runs when its dependencies
\* (gameStatus, roundSummaryTimeLeft) changed and its condition holds.
AutoTransitionRuns(old, new) ==
  /\ new.gameStatus = "round_summary"
  /\ ~new.roundSummaryTimeLeft
  /\ (old.gameStatus # "round_summary" \/ old.roundSummaryTimeLeft)

\* The rejoin as an insert that does not look for the user's row.
FetchRejoins_Always(u) == game.status # "finished"

\* The rejoin at the end of fetchGameData: a user without a row in a game
\* that is not finished gets one.
FetchRejoins(u) == (\A p \in gamePlayers : p.user_id # u) /\ game.status # "finished"

\* fetchGameData calls endRound when the fetched round has run out.  The
\* call comes from the first render's closure, where game is null, so that
\* endRound deletes the strokes and returns for want of a next drawer.
FetchClears(row, running) ==
  row.status = "playing" /\ row.round_started_at # NoTime /\ ~running

\* The handler of notification note in client state c, with the states it
\* sets to a new object.
OnNote(c, note, running) ==
  CASE note.t = "game" -> Handled(OnGameRow(c, note.g, running), {}, <<>>, 0, FALSE)
    [] note.t = "pinsert" ->
         Handled(OnPlayerInsert(c, note.p),
                 IF OnPlayerInsert(c, note.p) = c THEN {} ELSE {"players"},
                 <<>>, 0, FALSE)
    [] note.t = "pdelete" ->
         Handled(OnPlayerDelete(c, note.p), {"players"}, <<>>, 0, FALSE)
    [] note.t = "chat" ->
         Handled(OnChatInsert(c, note.m), {"messages"}, <<>>, 0, FALSE)
    [] OTHER ->
         Handled(OnFetch(c, game, gamePlayers, chat, running),
                 {"players", "messages"}, <<>>, 0, FetchClears(game, running))

\* The subscription hands notification note to client u, whose feed is
\* rest afterwards.
Receive(u, note, rest) ==
  \E running \in IF note.t = "game" THEN RunningInputs(note.g)
                 ELSE IF note.t = "pupdate" THEN RunningInputs(game)
                 ELSE {TRUE} :
    LET h == OnNote(client[u], note, running)
        rows == IF AutoTransitionRuns(client[u], h.c)
                THEN <<ToChoosingWord(game)>> ELSE <<>>
        row == [user_id |-> u, score |-> 0, joined_at |-> joinSeq + 1]
    IN IF note.t = "pupdate" /\ FetchRejoins(u)
       THEN /\ CanPublish(rest, mounted)
            /\ gamePlayers' = gamePlayers \cup {row}
            /\ joinSeq' = joinSeq + 1
            /\ Commit(u, Handled(h.c, h.ch, rows, 0, h.cleared),
                      Publish(rest, mounted, PlayerInsertNote(row)), FALSE)
       ELSE /\ Commit(u, Handled(h.c, h.ch, rows, 0, h.cleared), rest, FALSE)
            /\ UNCHANGED <<gamePlayers, joinSeq>>

\* The subscription delivers the next change notification to client u.
Deliver(u) ==
  /\ mounted[u]
  /\ feed[u] # <<>>
  /\ Receive(u, Head(feed[u]), [feed EXCEPT ![u] = Tail(feed[u])])
  /\ UNCHANGED <<now, scoring, mounted, chat, pendingScore, redelivered, tracked, wordList, capacity, awaited, skew, joining, fill, reentered, failures, strokeSeq>>

\* The subscription hands the next chat notification to client u and will
\* deliver it once more.
Redeliver(u) ==
  /\ mounted[u]
  /\ feed[u] # <<>>
  /\ Head(feed[u]).t = "chat"
  /\ redelivered < MaxRedeliver
  /\ redelivered' = redelivered + 1
  /\ Receive(u, Head(feed[u]), feed)
  /\ UNCHANGED <<now, scoring, mounted, chat, pendingScore, tracked, wordList, capacity, awaited, skew, joining, fill, reentered, failures, strokeSeq>>

\* The low-player effect without its delay and second look at the roster.
LowPlayerFire_NoRecheck(u) ==
  /\ mounted[u]
  /\ Cardinality(client[u].players) <= 1
  /\ client[u].gameStatus \in ActivePhases
  /\ Commit(u, Handled([client[u] EXCEPT !.gameStatus = "finished"], {},
                       <<[game EXCEPT !.status = "finished"]>>, 0, FALSE),
            feed, FALSE)
  /\ UNCHANGED <<gamePlayers, joinSeq, now, scoring, mounted, chat, pendingScore,
                 redelivered, tracked, wordList, capacity, awaited, skew, joining, fill, reentered, failures, strokeSeq>>

\* The 3 s timeout of the low-player effect fires and re-reads the roster.
LowPlayerFire(u) ==
  /\ mounted[u]
  /\ Cardinality(client[u].players) <= 1
  /\ client[u].gameStatus \in ActivePhases
  /\ IF Cardinality(gamePlayers) <= 1
     THEN Commit(u, Handled([client[u] EXCEPT !.gameStatus = "finished"], {},
                            <<[game EXCEPT !.status = "finished"]>>, 0, FALSE),
                 feed, FALSE)
     ELSE UNCHANGED <<detected, game, feed, client, turnsPlayed, autoPicked, pendingSummary,
                      strokes, canvas>>
  /\ UNCHANGED <<gamePlayers, joinSeq, now, scoring, mounted, chat, pendingScore,
                 redelivered, tracked, wordList, capacity, awaited, skew, joining, fill, reentered, failures, strokeSeq>>

\* leaveGame: delete the own game_players row and navigate to the lobby.
Leave(u) ==
  /\ mounted[u]
  /\ LET gone == {p \in gamePlayers : p.user_id = u}
         others == [mounted EXCEPT ![u] = FALSE]
     IN /\ gamePlayers' = gamePlayers \ gone
        /\ mounted' = others
        /\ IF gone = {}
           THEN feed' = [feed EXCEPT ![u] = <<>>]
           ELSE /\ CanPublish([feed EXCEPT ![u] = <<>>], others)
                /\ feed' = Publish([feed EXCEPT ![u] = <<>>], others,
                                   PlayerDeleteNote(CHOOSE p \in gone : TRUE))
  /\ client' = [client EXCEPT ![u] = FreshClient]
  /\ canvas' = [canvas EXCEPT ![u] = Unmounted(@)]
  /\ UNCHANGED <<detected, game, joinSeq, now, scoring, pendingSummary, turnsPlayed,
                 autoPicked, chat, pendingScore, strokes, redelivered, tracked, wordList, capacity, awaited, skew, joining, fill, reentered, failures, strokeSeq>>

\* A user opens the room: GameRoom mounts, subscribes, fetchGameData loads
\* game, players and messages and upserts the user's row unless the game is
\* finished.
Join(u) ==
  /\ ~mounted[u]
  /\ joinSeq < NumUsers + MaxJoins
  /\ mounted' = [mounted EXCEPT ![u] = TRUE]
  /\ reentered' = IF \E p \in gamePlayers : p.user_id = u
                  THEN reentered \cup {u} ELSE reentered
  /\ LET row == [user_id |-> u, score |-> 0, joined_at |-> joinSeq + 1]
         f == IF FetchRejoins(u) THEN Publish(feed, mounted', PlayerInsertNote(row))
              ELSE feed
     IN /\ FetchRejoins(u) => CanPublish(feed, mounted')
        /\ gamePlayers' = IF FetchRejoins(u) THEN gamePlayers \cup {row} ELSE gamePlayers
        /\ joinSeq' = IF FetchRejoins(u) THEN joinSeq + 1 ELSE joinSeq
        /\ \E running \in RunningInputs(game) :
             Commit(u, Handled(OnFetch(FreshClient, game, gamePlayers, chat, running),
                               {"players", "messages"}, <<>>, 0,
                               FetchClears(game, running)),
                    f, FALSE)
  /\ UNCHANGED <<now, scoring, chat, pendingScore, redelivered, tracked, wordList, capacity, awaited, skew, joining, fill, failures, strokeSeq>>

\* joinGame in the lobby, up to its insert: the room is not full and the
\* user has no row in it.  A full room ends the call; a user who has a row
\* is taken to the room.
JoinGameChecks(u) ==
  /\ ~mounted[u]
  /\ u \notin joining
  /\ joinSeq <= NumUsers + MaxJoins
  /\ Cardinality(gamePlayers) < game.max_players
  /\ \A p \in gamePlayers : p.user_id # u
  /\ joining' = joining \cup {u}
  /\ UNCHANGED <<detected, game, gamePlayers, joinSeq, now, scoring, feed, mounted, client,
                 pendingSummary, turnsPlayed, autoPicked, chat, pendingScore, strokes,
                 redelivered, tracked, wordList, capacity, awaited, skew, fill, reentered,
                 failures, strokeSeq, canvas>>

\* The insert of joinGame.  It fails on the unique (game_id, user_id) when
\* the user got a row in the meantime.
JoinGameInserts(u) ==
  /\ u \in joining
  /\ joining' = joining \ {u}
  /\ IF \E p \in gamePlayers : p.user_id = u
     THEN UNCHANGED <<gamePlayers, joinSeq, feed>>
     ELSE LET row == [user_id |-> u, score |-> 0, joined_at |-> joinSeq + 1]
          IN /\ CanPublish(feed, mounted)
             /\ gamePlayers' = gamePlayers \cup {row}
             /\ joinSeq' = joinSeq + 1
             /\ feed' = Publish(feed, mounted, PlayerInsertNote(row))
  /\ UNCHANGED <<detected, game, now, scoring, mounted, client,
                 pendingSummary, turnsPlayed, autoPicked, chat, pendingScore, strokes,
                 redelivered, tracked, wordList, capacity, awaited, skew, fill, reentered,
                 failures, strokeSeq, canvas>>

\* Only the floodFill call changes.
FillOnly ==
  UNCHANGED <<detected, game, gamePlayers, joinSeq, now, scoring, feed, mounted, client,
              pendingSummary, turnsPlayed, autoPicked, chat, pendingScore, strokes,
              redelivered, tracked, wordList, capacity, awaited, skew, joining, reentered,
              failures, strokeSeq, canvas>>

\* floodFill up to its loop, on a canvas that shows data: the start
\* pixel's colour is read and the start pixel pushed; nothing happens for
\* a colour string that hexToRgb does not take.
FloodFill(startX, startY, fillColor) ==
  /\ ~fill.running
  /\ \E data \in [Pixels -> PixelColours] :
       fill' = IF hexToRgb(fillColor) = NoRgb
               THEN [NoFill EXCEPT !.data = data]
               ELSE [running |-> TRUE, data |-> data,
                     stack |-> <<<<startX, startY>>>>,
                     start |-> data[<<startX, startY>>],
                     fillColorRGB |-> hexToRgb(fillColor)]
  /\ FillOnly

\* The entries the loop pushes for the pixel (x, y).
Neighbours(x, y) == <<<<x + 1, y>>, <<x - 1, y>>, <<x, y + 1>>, <<x, y - 1>>>>

\* The loop's test of a pixel's colour against the start colour.
Matches(colour, f) == colour = f.start

\* One turn of the loop of floodFill: the top entry is popped; a pixel of
\* the raster that has the start colour is coloured and its four
\* neighbours are pushed.
FloodStep ==
  /\ fill.running
  /\ fill.stack # <<>>
  /\ Len(fill.stack) <= StackCap
  /\ LET top == fill.stack[Len(fill.stack)]
         rest == SubSeq(fill.stack, 1, Len(fill.stack) - 1)
     IN fill' = IF top \notin Pixels THEN [fill EXCEPT !.stack = rest]
                ELSE IF ~Matches(fill.data[top], fill) THEN [fill EXCEPT !.stack = rest]
                ELSE [fill EXCEPT !.data[top] = fill.fillColorRGB,
                                  !.stack = rest \o Neighbours(top[1], top[2])]
  /\ FillOnly

\* The loop has ended: putImageData shows the result.
FloodDone ==
  /\ fill.running
  /\ fill.stack = <<>>
  /\ fill' = [NoFill EXCEPT !.data = fill.data]
  /\ FillOnly

\* The browser tab is closed: the component unmounts and its channel and
\* timers go away, while the game_players row stays.
Disconnect(u) ==
  /\ mounted[u]
  /\ mounted' = [mounted EXCEPT ![u] = FALSE]
  /\ feed' = [feed EXCEPT ![u] = <<>>]
  /\ client' = [client EXCEPT ![u] = FreshClient]
  /\ canvas' = [canvas EXCEPT ![u] = Unmounted(@)]
  /\ pendingSummary' = [pendingSummary EXCEPT ![u] = 0]
  /\ UNCHANGED <<detected, game, gamePlayers, joinSeq, now, scoring, turnsPlayed, autoPicked,
                 chat, pendingScore, strokes, redelivered, tracked, wordList, capacity, awaited, skew, joining, fill, reentered, failures, strokeSeq>>

\* Time passes.
Tick ==
  /\ now < MaxTime
  /\ now' = now + 1
  /\ UNCHANGED <<detected, game, gamePlayers, joinSeq, feed, mounted, client,
                 pendingSummary, turnsPlayed, autoPicked, scoring, chat,
                 pendingScore, strokes, redelivered, tracked, wordList, capacity, awaited, skew, joining, fill, reentered, failures, strokeSeq, canvas>>

\* sendMessage with newMessage typed, up to the insert of the chat row.
\* The row keeps, as history, the Playing phase it was stored in (turn).  The
\* score to store is computed from the state of the render the call was
\* made in; the update follows as ScoreUpdate.  The input is cleared only
\* after both requests, so the same text can be sent again meanwhile.
SendMessage(u, newMessage) ==
  /\ mounted[u]
  /\ Len(chat) < MaxChat
  /\ Trim(newMessage) # ""
  /\ LET c == client[u]
         isDrawer == u = c.currentDrawer
         hasGuessedCorrectly == u \in c.correctGuessers
         chatDisabled == (isDrawer \/ hasGuessedCorrectly) /\ c.gameStatus = "playing"
         isGuess == c.gameStatus = "playing" /\ u # c.currentDrawer
         isCorrect == isGuess /\ Trim(ToLowerCase(newMessage)) = ToLowerCase(c.currentWord)
         messageText == IF isCorrect THEN Announcement ELSE newMessage
         gained == IF isCorrect
                   THEN GainedOnSend(c.currentRoundStartedAt, now, c.game.round_duration)
                   ELSE 0
         mine == {p \in c.players : p.user_id = u}
         score == IF mine = {} THEN 0 ELSE (CHOOSE p \in mine : TRUE).score
         row == [user_id |-> u, message |-> messageText, is_guess |-> isGuess,
                 is_correct |-> isCorrect, created_at |-> now, gained |-> gained,
                 turn |-> IF game.status = "playing" THEN Len(turnsPlayed) ELSE 0]
     IN /\ ~chatDisabled
        /\ chat' = Append(chat, row)
        /\ IF isCorrect
           THEN /\ HasRoom(feed)
                /\ feed' = Publish(feed, mounted, ChatNote(Entry(Len(chat) + 1, row)))
                /\ pendingScore' = [pendingScore EXCEPT ![u] = Append(@, score + gained)]
           ELSE UNCHANGED <<feed, pendingScore>>
  /\ UNCHANGED <<detected, game, gamePlayers, joinSeq, now, scoring, mounted, client,
                 pendingSummary, turnsPlayed, autoPicked, strokes, redelivered,
                 tracked, wordList, capacity, awaited, skew, joining, fill, reentered, failures, strokeSeq, canvas>>

\* During a round the user types the word the client shows as the current
\* word, in lower case.
SendGuess(u) ==
  /\ client[u].gameStatus = "playing"
  /\ client[u].currentWord # NoWord
  /\ SendMessage(u, ToLowerCase(client[u].currentWord))

\* The user types one of the texts and sends it, in whatever phase the
\* client shows.
SendText(u) == \E t \in TypedTexts : SendMessage(u, t)

\* The game_players update that ends sendMessage after a correct guess.
ScoreUpdate(u) ==
  /\ pendingScore[u] # <<>>
  /\ pendingScore' = [pendingScore EXCEPT ![u] = Tail(@)]
  /\ gamePlayers' = {IF p.user_id = u THEN [p EXCEPT !.score = Head(pendingScore[u])]
                     ELSE p : p \in gamePlayers}
  /\ IF \E p \in gamePlayers : p.user_id = u
     THEN /\ HasRoom(feed)
          /\ feed' = Publish(feed, mounted, PlayerUpdateNote)
     ELSE UNCHANGED feed
  /\ UNCHANGED <<detected, game, joinSeq, now, scoring, mounted, client, pendingSummary,
                 turnsPlayed, autoPicked, chat, strokes, redelivered, tracked, wordList, capacity, awaited, skew, joining, fill, reentered, failures, strokeSeq, canvas>>

\* The drawer of client u's view draws a path: fabric adds it to the
\* canvas, path:created calls savePath, which inserts the row.
DrawStroke(u) ==
  /\ mounted[u]
  /\ ShowsCanvas(client[u])
  /\ u = client[u].currentDrawer
  /\ strokeSeq < MaxStrokes
  /\ HasStrokeRoom(1)
  /\ strokeSeq' = strokeSeq + 1
  /\ strokes' = Append(strokes, strokeSeq')
  /\ canvas' = PublishStrokes([canvas EXCEPT ![u].paths = Append(@, strokeSeq')],
                              <<InsertNote(strokeSeq')>>)
  /\ UNCHANGED <<detected, game, gamePlayers, joinSeq, now, scoring, feed, mounted, client,
                 pendingSummary, turnsPlayed, autoPicked, chat, pendingScore,
                 redelivered, tracked, wordList, capacity, awaited, skew, joining, fill, reentered, failures>>

\* clearCanvas, from the Clear button of the drawer's toolbar: the local
\* canvas is cleared, every row of the room deleted and the strokes loaded.
ClearCanvas(u) ==
  /\ mounted[u]
  /\ ShowsCanvas(client[u])
  /\ u = client[u].currentDrawer
  /\ HasStrokeRoom(Len(strokes))
  /\ canvas[u].fetches < MaxFetches
  /\ strokes' = <<>>
  /\ canvas' = [PublishStrokes(canvas, DeleteNotes(strokes)) EXCEPT ![u] = Fetching(@)]
  /\ UNCHANGED <<detected, game, gamePlayers, joinSeq, now, scoring, feed, mounted, client,
                 pendingSummary, turnsPlayed, autoPicked, chat, pendingScore,
                 redelivered, tracked, wordList, capacity, awaited, skew, joining, fill, reentered, failures, strokeSeq>>

\* A variant of the undo that removes the oldest row.
Undone_Oldest(rows) == Tail(rows)

\* The rows left by undoLastStroke: all but the one with the latest
\* created_at.
Undone(rows) == SubSeq(rows, 1, Len(rows) - 1)

\* undoLastStroke, from the Undo button of the drawer's toolbar: without a
\* row `.single()` reports an error and the call returns.
UndoLastStroke(u) ==
  /\ mounted[u]
  /\ ShowsCanvas(client[u])
  /\ u = client[u].currentDrawer
  /\ IF strokes = <<>>
     THEN UNCHANGED <<strokes, canvas>>
     ELSE /\ HasStrokeRoom(1)
          /\ canvas[u].fetches < MaxFetches
          /\ strokes' = Undone(strokes)
          /\ canvas' = [PublishStrokes(canvas, <<DeleteNote(strokes[Len(strokes)])>>)
                          EXCEPT ![u] = Fetching(@)]
  /\ UNCHANGED <<detected, game, gamePlayers, joinSeq, now, scoring, feed, mounted, client,
                 pendingSummary, turnsPlayed, autoPicked, chat, pendingScore,
                 redelivered, tracked, wordList, capacity, awaited, skew, joining, fill, reentered, failures, strokeSeq>>

\* The strokes subscription hands its next notification to the canvas of
\* client u: an INSERT adds the path, a DELETE clears the canvas and calls
\* fetchAndRenderStrokes.
CanvasDeliver(u) ==
  /\ canvas[u].feed # <<>>
  /\ LET note == Head(canvas[u].feed)
         rest == [canvas[u] EXCEPT !.feed = Tail(@)]
     IN IF note.t = "DELETE"
        THEN /\ canvas[u].fetches < MaxFetches
             /\ canvas' = [canvas EXCEPT ![u] = [Fetching(rest) EXCEPT !.reloaded = TRUE]]
        ELSE canvas' = [canvas EXCEPT
                          ![u] = [rest EXCEPT !.paths = AddStrokeToCanvas(@, note.id)]]
  /\ UNCHANGED <<detected, game, gamePlayers, joinSeq, now, scoring, feed, mounted, client,
                 pendingSummary, turnsPlayed, autoPicked, chat, pendingScore, strokes,
                 redelivered, tracked, wordList, capacity, awaited, skew, joining, fill, reentered, failures, strokeSeq>>

\* The select of a fetchAndRenderStrokes of client u returns and the rows
\* are added to the canvas.
FetchReturns(u) ==
  /\ canvas[u].fetches > 0
  /\ \E loaded \in FetchOrders(strokes) :
       canvas' = [canvas EXCEPT ![u].paths = @ \o loaded, ![u].fetches = @ - 1]
  /\ UNCHANGED <<detected, game, gamePlayers, joinSeq, now, scoring, feed, mounted, client,
                 pendingSummary, turnsPlayed, autoPicked, chat, pendingScore, strokes,
                 redelivered, tracked, wordList, capacity, awaited, skew, joining, fill, reentered,
                 failures, strokeSeq>>

\* The clients a broadcast of client u on the live-ink channel is sent to.
InkViewers(u) == OpenCanvases \ {u}

\* The canvases after client u sent the notice n on the live-ink channel.
Broadcast(cv, u, n) ==
  [v \in Users |-> IF v \in InkViewers(u)
                   THEN [cv[v] EXCEPT !.ink = Append(@, n)] ELSE cv[v]]

\* The drawing is left alone by the live ink.
InkOnly ==
  UNCHANGED <<detected, game, gamePlayers, joinSeq, now, scoring, feed, mounted, client,
              pendingSummary, turnsPlayed, autoPicked, chat, pendingScore, strokes,
              redelivered, tracked, wordList, capacity, awaited, skew, joining, fill, reentered,
              failures, strokeSeq>>

\* handleDownLive: the drawer of client u's view starts a gesture, with a
\* path id of its own.
MouseDown(u) ==
  /\ mounted[u]
  /\ ShowsCanvas(client[u])
  /\ u = client[u].currentDrawer
  /\ canvas[u].gesture = NoPath
  /\ canvas[u].gestures < MaxGestures
  /\ canvas' = [canvas EXCEPT ![u].gesture = <<u, canvas[u].gestures + 1>>,
                              ![u].gestures = @ + 1]
  /\ InkOnly

\* handleMoveLive, for a move that passes the throttle: a draw sample of
\* the gesture is broadcast.
MouseMove(u) ==
  /\ mounted[u]
  /\ ShowsCanvas(client[u])
  /\ u = client[u].currentDrawer
  /\ canvas[u].gesture # NoPath
  /\ canvas[u].sent < MaxSamples
  /\ \A v \in InkViewers(u) : Len(canvas[v].ink) < MaxInk
  /\ canvas' = Broadcast([canvas EXCEPT ![u].sent = @ + 1], u,
                         [event |-> "draw", pathId |-> canvas[u].gesture])
  /\ InkOnly

\* handleUpLive: the end of the gesture is broadcast.
MouseUp(u) ==
  /\ mounted[u]
  /\ ShowsCanvas(client[u])
  /\ u = client[u].currentDrawer
  /\ canvas[u].gesture # NoPath
  /\ \A v \in InkViewers(u) : Len(canvas[v].ink) < MaxInk
  /\ canvas' = Broadcast([canvas EXCEPT ![u].gesture = NoPath], u,
                         [event |-> "draw_end", pathId |-> canvas[u].gesture])
  /\ InkOnly

\* The temporary lines left when those of path id are removed.
WithoutLines(lines, id) == SelectSeq(lines, LAMBDA l : l # id)

\* The live-ink channel hands its next notice to client v: a draw sample
\* adds a line from the path's previous sample, if there is one, and
\* becomes the previous sample; a draw_end removes the path's lines and
\* its previous sample.
InkDeliver(v) ==
  /\ v \in OpenCanvases
  /\ canvas[v].ink # <<>>
  /\ LET n == Head(canvas[v].ink)
         cv == [canvas[v] EXCEPT !.ink = Tail(@), !.lastInk = now]
     IN canvas' = [canvas EXCEPT ![v] =
          IF n.event = "draw"
          THEN [cv EXCEPT !.lines = IF n.pathId \in cv.prev THEN Append(@, n.pathId) ELSE @,
                          !.prev = @ \cup {n.pathId}]
          ELSE [cv EXCEPT !.lines = WithoutLines(@, n.pathId),
                          !.prev = @ \ {n.pathId},
                          !.ended = @ \cup {n.pathId}]]
  /\ InkOnly

\* A notice of the live-ink channel does not reach client v.
InkLost(v) ==
  /\ canvas[v].ink # <<>>
  /\ LET n == Head(canvas[v].ink)
     IN canvas' = [canvas EXCEPT
          ![v].ink = Tail(@),
          ![v].ended = IF n.event = "draw_end" THEN @ \cup {n.pathId} ELSE @]
  /\ InkOnly

\* What endRound did when its games update came back with an error: the
\* result of the awaited update is not looked at, so everything but the
\* stored row is as after a successful call.
EndRoundFailed(c, g) == [EndRoundCall(c, g) EXCEPT !.rows = <<>>]

\* What startGame and chooseWord did when their games update came back with
\* an error: `if (error) throw error` comes before their setState calls.
UpdateThrew(c) == Handled(c, {}, <<>>, 0, FALSE)

\* startGame while the store rejects the update.
StartGameFails(u) ==
  /\ mounted[u]
  /\ client[u].gameStatus = "waiting"
  /\ Cardinality(client[u].players) >= 2
  /\ failures < MaxFailures
  /\ failures' = failures + 1
  /\ Commit(u, UpdateThrew(client[u]), feed, FALSE)
  /\ UNCHANGED <<gamePlayers, joinSeq, now, scoring, mounted, chat, pendingScore,
                 redelivered, tracked, wordList, capacity, awaited, skew, joining, fill, reentered, strokeSeq>>

\* The drawer clicks a word while the store rejects the update.
ChooseWordFails(u) ==
  /\ mounted[u]
  /\ client[u].gameStatus = "choosing_word"
  /\ u = client[u].currentDrawer
  /\ Len(client[u].wordChoices) > 0
  /\ failures < MaxFailures
  /\ failures' = failures + 1
  /\ Commit(u, UpdateThrew(client[u]), feed, FALSE)
  /\ UNCHANGED <<gamePlayers, joinSeq, now, scoring, mounted, chat, pendingScore,
                 redelivered, tracked, wordList, capacity, awaited, skew, joining, fill, reentered, strokeSeq>>

\* The round timer reaches 0 and calls endRound while the store rejects
\* the games update.
EndRoundFails(u) ==
  /\ mounted[u]
  /\ client[u].gameStatus = "playing"
  /\ client[u].timeLeft
  /\ failures < MaxFailures
  /\ failures' = failures + 1
  /\ Commit(u, EndRoundFailed([client[u] EXCEPT !.timeLeft = FALSE], game), feed, FALSE)
  /\ UNCHANGED <<gamePlayers, joinSeq, now, scoring, mounted, chat, pendingScore,
                 redelivered, tracked, wordList, capacity, awaited, skew, joining, fill, reentered, strokeSeq>>

\* The round timer reaches 0 and endRound runs up to its games update:
\* the strokes are deleted and the row is stored, and what the call sets
\* afterwards waits for the response.
EndRoundSent(u) ==
  /\ mounted[u]
  /\ client[u].gameStatus = "playing"
  /\ client[u].timeLeft
  /\ awaited[u] = NoAwait
  /\ \E h \in {EndRoundCall([client[u] EXCEPT !.timeLeft = FALSE], game)} :
       /\ h.rows # <<>>
       /\ Commit(u, Handled([client[u] EXCEPT !.timeLeft = FALSE], {}, h.rows, 0,
                            h.cleared), feed, FALSE)
       /\ awaited' = [awaited EXCEPT ![u] = [gameStatus |-> h.c.gameStatus,
                                            currentDrawer |-> h.c.currentDrawer]]
  /\ UNCHANGED <<gamePlayers, joinSeq, now, scoring, mounted, chat, pendingScore,
                 redelivered, tracked, wordList, capacity, skew, joining, fill, reentered,
                 failures, strokeSeq>>

\* The update of endRound has returned: the call sets its states and, on
\* the way to the round summary, arms the 5 s timeout.
EndRoundReturns(u) ==
  /\ mounted[u]
  /\ awaited[u] # NoAwait
  /\ awaited' = [awaited EXCEPT ![u] = NoAwait]
  /\ IF awaited[u].gameStatus = "finished"
     THEN Commit(u, Handled([client[u] EXCEPT !.gameStatus = "finished"], {}, <<>>, 0,
                            FALSE), feed, FALSE)
     ELSE Commit(u, Handled([client[u] EXCEPT
                               !.currentDrawer = awaited[u].currentDrawer,
                               !.gameStatus = "round_summary",
                               !.roundSummaryTimeLeft = TRUE,
                               !.correctGuessers = {},
                               !.stillGuessing = {}],
                            {"correctGuessers", "stillGuessing"}, <<>>, 1, FALSE),
                 feed, FALSE)
  /\ UNCHANGED <<gamePlayers, joinSeq, now, scoring, mounted, chat, pendingScore,
                 redelivered, tracked, wordList, capacity, skew, joining, fill, reentered,
                 failures, strokeSeq>>

SessionStep(u) ==
  \/ StartGame(u)
  \/ ChooseWord(u)
  \/ WordChoiceTimerExpire(u)
  \/ RoundTimerExpire(u)
  \/ SummaryTimeoutFire(u)
  \/ SummaryTimerExpire(u)
  \/ Deliver(u)

\* The room while participants may leave.
Next ==
  \/ \E u \in Users : SessionStep(u)
  \/ \E u \in Users : LowPlayerFire(u)
  \/ \E u \in Users : Leave(u)

Spec == Init /\ [][Next]_vars

\* The room while participants may leave and (re)join.
NextJoin == Next \/ \E u \in Users : Join(u)

SpecJoin == Init /\ [][NextJoin]_vars

\* The same room with a roster that does not change.
NextFixed == \E u \in Users : SessionStep(u)

SpecFixed == Init /\ [][NextFixed]_vars

\* The fixed roster with a running clock, so that timestamps differ.
NextTimed == NextFixed \/ Tick

SpecTimed == Init /\ [][NextTimed]_vars

\* One correct guess on its own: the round start, the moment of the guess
\* and the room's round duration are drawn, then the points are computed.
ScoringInputs ==
  {[currentRoundStartedAt |-> t0, at |-> t0 + e, round_duration |-> d,
    gained |-> NoScore, shown |-> NoScore] :
     t0 \in 0..MaxStart, e \in 0..MaxElapsed, d \in RoundDurations}

InitScore ==
  /\ InitRoom(Users, 1) /\ scoring \in ScoringInputs /\ tracked = FALSE
  /\ capacity = MaxInFlight /\ skew = NoSkew
  /\ wordList = WordList

AwardGuess ==
  /\ scoring.gained = NoScore
  /\ scoring' = [scoring EXCEPT
        !.gained = GainedOnSend(scoring.currentRoundStartedAt, scoring.at,
                                scoring.round_duration),
        !.shown = GainedInSummary(scoring.currentRoundStartedAt, scoring.at,
                                  scoring.round_duration)]
  /\ UNCHANGED <<detected, game, gamePlayers, joinSeq, now, feed, mounted, client,
                 pendingSummary, turnsPlayed, autoPicked, chat, pendingScore,
                 strokes, redelivered, tracked, wordList, capacity, awaited, skew, joining, fill, reentered, failures, strokeSeq, canvas>>

SpecScore == InitScore /\ [][AwardGuess]_vars

\* The fixed roster with the chat: guesses and the scores they earn.
InitChat ==
  \E sd \in 1..MaxShowdowns :
    /\ InitRoom(Users, sd) /\ scoring = NoScoring /\ tracked = TRUE
    /\ capacity = MaxInFlight /\ skew = NoSkew
    /\ wordList = ShortList

NextChat ==
  \/ \E u \in Users : StartGame(u)
  \/ \E u \in Users : WordChoiceTimerExpire(u)
  \/ \E u \in Users : RoundTimerExpire(u)
  \/ \E u \in Users : SummaryTimeoutFire(u)
  \/ \E u \in Users : SummaryTimerExpire(u)
  \/ \E u \in Users : Deliver(u)
  \/ \E u \in Users : SendGuess(u)
  \/ \E u \in Users : ScoreUpdate(u)

SpecChat == InitChat /\ [][NextChat]_vars

\* The chat over a subscription that may deliver a notification twice,
\* with rounds that end when everyone has guessed.
NextRedeliver ==
  \/ \E u \in Users : StartGame(u)
  \/ \E u \in Users : WordChoiceTimerExpire(u)
  \/ \E u \in Users : SummaryTimeoutFire(u)
  \/ \E u \in Users : SummaryTimerExpire(u)
  \/ \E u \in Users : Deliver(u)
  \/ \E u \in Users : Redeliver(u)
  \/ \E u \in Users : SendGuess(u)
  \/ \E u \in Users : ScoreUpdate(u)

SpecRedeliver == InitChat /\ [][NextRedeliver]_vars

\* A client under notifications delivered in any order: games rows of the
\* Playing and RoundSummary phases and correct chat entries, each with any
\* of the drawers and timestamps.
AnyRows ==
  {[game EXCEPT !.status = st, !.current_drawer = d, !.round_started_at = t] :
     st \in {"playing", "round_summary"}, d \in Users, t \in 0..MaxTime}

AnyEntries ==
  {Entry(1, [user_id |-> a, created_at |-> t]) : a \in Users, t \in 0..MaxTime}

DeliverAny(u) ==
  /\ mounted[u]
  /\ \E note \in {GameNote(g) : g \in AnyRows} \cup {ChatNote(m) : m \in AnyEntries} :
       /\ note.t = "chat" => Len(client[u].messages) < MaxChat
       /\ Receive(u, note, feed)
  /\ UNCHANGED <<now, scoring, mounted, chat, pendingScore, redelivered, tracked, wordList, capacity, awaited, skew, joining, fill, reentered, failures, strokeSeq>>

\* The client of the last user is the one under such deliveries.
NextTracker ==
  \/ DeliverAny(NumUsers)
  \/ \E u \in Users : Deliver(u)

SpecTracker == InitChat /\ [][NextTracker]_vars

\* Leaving and (re)joining with the short word list.
InitShort ==
  \E sd \in 1..MaxShowdowns :
    /\ InitRoom(Users, sd) /\ scoring = NoScoring /\ tracked = FALSE
    /\ wordList = ShortList /\ capacity = MaxInFlight /\ skew = NoSkew

SpecRejoin == InitShort /\ [][NextJoin]_vars

\* Closing the tab and coming back, without leaving, while guesses score.
NextRefresh ==
  \/ \E u \in Users : StartGame(u)
  \/ \E u \in Users : WordChoiceTimerExpire(u)
  \/ \E u \in Users : Deliver(u)
  \/ \E u \in Users : Disconnect(u)
  \/ \E u \in Users : Join(u)
  \/ \E u \in Users : SendGuess(u)
  \/ \E u \in Users : ScoreUpdate(u)

SpecRefresh == InitShort /\ [][NextRefresh]_vars

\* The chat of one round while the clients' clocks may be ahead.
InitSkew ==
  /\ InitRoom(Users, 1) /\ scoring = NoScoring /\ tracked = TRUE
  /\ wordList = ShortList /\ capacity = MaxInFlight
  /\ skew \in [Users -> 0..MaxSkew]

NextSkew ==
  \/ \E u \in Users : StartGame(u)
  \/ \E u \in Users : WordChoiceTimerExpire(u)
  \/ \E u \in Users : Deliver(u)
  \/ \E u \in Users : SendGuess(u)
  \/ \E u \in Users : ScoreUpdate(u)

SpecSkew == InitSkew /\ [][NextSkew]_vars

\* The fixed roster while the response to endRound's update may come after
\* notifications of later writes.
NextAwait ==
  \/ \E u \in Users : StartGame(u)
  \/ \E u \in Users : ChooseWord(u)
  \/ \E u \in Users : EndRoundSent(u)
  \/ \E u \in Users : EndRoundReturns(u)
  \/ \E u \in Users : SummaryTimerExpire(u)
  \/ \E u \in Users : SummaryTimeoutFire(u)
  \/ \E u \in Users : Deliver(u)

SpecAwait == InitShort /\ [][NextAwait]_vars

\* The rounds of a fixed roster while the drawer draws, undoes and clears.
NextCanvas ==
  \/ \E u \in Users : StartGame(u)
  \/ \E u \in Users : ChooseWord(u)
  \/ \E u \in Users : RoundTimerExpire(u)
  \/ \E u \in Users : Deliver(u)
  \/ \E u \in Users : DrawStroke(u)
  \/ \E u \in Users : ClearCanvas(u)
  \/ \E u \in Users : UndoLastStroke(u)
  \/ \E u \in Users : CanvasDeliver(u)
  \/ \E u \in Users : FetchReturns(u)

\* The room before the first startGame, with feeds that hold one
\* notification less than elsewhere.
InitCanvas ==
  /\ InitRoom(Users, 1) /\ scoring = NoScoring /\ tracked = FALSE
  /\ wordList = ShortList /\ capacity = MaxInFlight - 1 /\ skew = NoSkew

SpecCanvas == InitCanvas /\ [][NextCanvas]_vars

\* The chat while users type what they like.
NextTalk ==
  \/ \E u \in Users : StartGame(u)
  \/ \E u \in Users : ChooseWord(u)
  \/ \E u \in Users : Deliver(u)
  \/ \E u \in Users : SendText(u)
  \/ \E u \in Users : ScoreUpdate(u)

SpecTalk == InitChat /\ [][NextTalk]_vars

\* The fixed roster while a games update may fail.
NextFailing ==
  \/ NextFixed
  \/ \E u \in Users : StartGameFails(u)
  \/ \E u \in Users : ChooseWordFails(u)
  \/ \E u \in Users : EndRoundFails(u)

SpecFailing == Init /\ [][NextFailing]_vars

\* The fixed roster with feeds that hold one notification more, so that a
\* client can fall two writes behind and still write itself.
InitBehind ==
  \E sd \in 1..MaxShowdowns :
    /\ InitRoom(Users, sd) /\ scoring = NoScoring /\ tracked = FALSE
    /\ wordList = ShortList /\ capacity = MaxInFlight + 1 /\ skew = NoSkew

SpecBehind == InitBehind /\ [][NextFixed]_vars

\* The fixed roster with the drawer's canvas.
NextDraw == NextFixed \/ \E u \in Users : DrawStroke(u)

SpecDraw == Init /\ [][NextDraw]_vars

\* The fixed roster while clients may close their tab, with every timer
\* that runs eventually firing and every notification eventually delivered.
NextLive ==
  \/ \E u \in Users : SessionStep(u)
  \/ \E u \in Users : Disconnect(u)

Fairness ==
  \A u \in Users :
    /\ WF_vars(WordChoiceTimerExpire(u))
    /\ WF_vars(RoundTimerExpire(u))
    /\ WF_vars(SummaryTimerExpire(u))
    /\ WF_vars(SummaryTimeoutFire(u))
    /\ WF_vars(Deliver(u))

SpecLive == Init /\ [][NextLive]_vars /\ Fairness

\* ================================================================= claims
RosterByJoin == SortedPlayers(gamePlayers)

\* C1: when several clients end the same Playing phase, one endRound takes
\* effect and an endRound that finds the session no longer Playing leaves
\* the stored session as it is.
C1_LosingEndRoundChangesNothing ==
  [][\A u \in Users :
       RoundTimerExpire(u) /\ game.status # "playing" => game' = game]_vars

\* C2: every change of the stored phase is an edge of the transition table.
PhaseEdges ==
  {<<"waiting", "choosing_word">>, <<"choosing_word", "playing">>,
   <<"playing", "round_summary">>, <<"playing", "finished">>,
   <<"round_summary", "choosing_word">>, <<"choosing_word", "finished">>,
   <<"round_summary", "finished">>}

C2_PhaseEdges ==
  [][game'.status # game.status => <<game.status, game'.status>> \in PhaseEdges]_vars

\* C3: once the stored phase is Finished, no operation changes the session.
C3_FinishedTerminal == [][game.status = "finished" => game' = game]_vars

\* C4: currentWord is non-empty exactly in Playing and RoundSummary.
C4_CurrentWordIffPhase ==
  (game.current_word # NoWord) <=> (game.status \in {"playing", "round_summary"})

\* C5: currentDrawerId is non-empty exactly in the active phases.
C5_CurrentDrawerIffPhase ==
  (game.current_drawer # NoUser) <=> (game.status \in ActivePhases)

\* C6: after startGame the turn index changes only by +1, at the end of a
\* Playing phase, and every Playing phase that is followed by another phase
\* of the game advances it.
C6_TurnIndexAdvances ==
  [][game.status # "waiting" =>
       /\ game'.round # game.round =>
            game'.round = game.round + 1 /\ game.status = "playing"
       /\ game.status = "playing" /\ game'.status \notin {"playing", "finished"} =>
            game'.round = game.round + 1]_vars

\* C7: turnIndex <= turnsTotal = cyclesTotal x participants at startGame,
\* and a game that finished has played exactly turnsTotal drawing turns.
C7_TurnsTotal ==
  /\ game.round <= game.max_rounds
  /\ game.status # "waiting" =>
       game.max_rounds = game.showdowns * Cardinality(gamePlayers)
  /\ game.status = "finished" => Len(turnsPlayed) = game.max_rounds

\* A roster of three whose join order differs from the order of the ids,
\* with the given scores: p0 = user 3, p1 = user 1, p2 = user 2.
ExampleOrder == <<3, 1, 2>>
ExampleRoster(scores) ==
  {[user_id |-> ExampleOrder[i], score |-> scores[i], joined_at |-> i] : i \in 1..3}
ExampleGame(k) ==
  [LocalGame(NewGame(2)) EXCEPT !.round = k, !.max_rounds = 6]

\* The drawers startGame and getNextDrawer give turns 1..6 of the example
\* are p0,p1,p2,p0,p1,p2 for every assignment of scores.
ExampleDrawers ==
  \A scores \in [1..3 -> {0, 150}] :
    /\ SortedPlayers(ExampleRoster(scores))[1].user_id = ExampleOrder[1]
    /\ \A k \in 2..6 :
         getNextDrawer(ExampleGame(k - 1), ExampleRoster(scores)).user_id
           = ExampleOrder[((k - 1) % 3) + 1]

\* C8: with a fixed roster the drawer of turn k is p[(k - 1) mod n] of the
\* join-ordered roster, for the stored drawer and for every drawing turn
\* entered; and for three participants and two cycles the drawers of turns
\* 1..6 are p0,p1,p2,p0,p1,p2 whatever the scores are.
C8_RoundRobin ==
  LET n == Cardinality(gamePlayers)
      p(k) == RosterByJoin[((k - 1) % n) + 1].user_id
  IN /\ game.status # "waiting" => game.current_drawer = p(game.round)
     /\ \A i \in 1..Len(turnsPlayed) : turnsPlayed[i].drawer = p(turnsPlayed[i].round)
     /\ ExampleDrawers

\* C8 witness: the game ran to its end and the second turn was drawn by the
\* second joiner.
C8_Witness ==
  /\ game.status = "finished"
  /\ Len(turnsPlayed) >= 2
  /\ turnsPlayed[1] = [round |-> 1, drawer |-> RosterByJoin[1].user_id]
  /\ turnsPlayed[2] = [round |-> 2, drawer |-> RosterByJoin[2].user_id]

\* C9: the drawer endRound writes for turn k is the participant at index
\* (k - 1) mod turnsPerCycle of the join-ordered roster, turnsPerCycle being
\* the participant count fixed at startGame, also after a participant left.
C9_FixedPeriod ==
  [][/\ game.status # "waiting"
     /\ game'.round # game.round \/ game'.current_drawer # game.current_drawer
     => LET turnsPerCycle == game'.max_rounds \div game'.showdowns
            roster == SortedPlayers(gamePlayers')
            index == ((game'.round - 1) % turnsPerCycle) + 1
        IN /\ index <= Len(roster)
           /\ game'.current_drawer = roster[index].user_id]_vars

\* The words of the bank that are not in the stored used words uw.
UnusedInBank(uw) == {i \in 1..Len(WordList) : IsUnused(WordList[i], LowerSet(uw))}

\* C10: the stored usedWords never holds a word twice (compared without
\* case), and the choices a client presents contain no stored used word
\* while at least 3 unused words remain in the bank.
C10_NoWordReuse ==
  [][/\ BagCardinality(game'.used_words) = Cardinality(LowerSet(game'.used_words))
     /\ \A u \in Users :
          /\ client'[u].wordChoices # client[u].wordChoices
          /\ client'[u].wordChoices # <<>>
          /\ Cardinality(UnusedInBank(game'.used_words)) >= ChoiceCount
          => \A i \in 1..Len(client'[u].wordChoices) :
               ToLowerCase(client'[u].wordChoices[i]) \notin LowerSet(game'.used_words)]_vars

C16_PhaseStartWrittenOnce ==
  [][game'.status = game.status /\ game'.round = game.round
     => /\ game'.round_started_at = game.round_started_at
        /\ game'.word_choice_started_at = game.word_choice_started_at]_vars

\* C12: while some client is connected, each active phase is eventually
\* left.
C12_NoPhaseStalls ==
  \A ph \in ActivePhases :
    (game.status = ph /\ \E u \in Users : mounted[u])
      ~> (game.status # ph \/ \A u \in Users : ~mounted[u])

\* C13: a correct guess e seconds into a round of D seconds is worth 400
\* if 4e <= D, else 300 if 4e <= 2D, else 200 if 4e <= 3D, else 100, both
\* as the stored increment and as the points of the round summary; with
\* D = 80: 15 -> 400, 35 -> 300, 55 -> 200, 65 -> 100.
ScoreTable(e, D) ==
  IF 4 * e <= D THEN 400
  ELSE IF 4 * e <= 2 * D THEN 300
  ELSE IF 4 * e <= 3 * D THEN 200
  ELSE 100

ScoreExamples ==
  <<calculateScore(15, 80), calculateScore(35, 80), calculateScore(55, 80),
    calculateScore(65, 80)>>

C20_NoStrokesWhileChoosing ==
  game.status = "choosing_word" /\ turnsPlayed # <<>> => strokes = <<>>

\* C14: once no score update is outstanding, every participant's stored
\* score is the sum of the points of the participant's correct entries.
RECURSIVE Awarded(_, _)
Awarded(u, rows) ==
  IF rows = <<>> THEN 0
  ELSE (IF Head(rows).user_id = u /\ Head(rows).is_correct THEN Head(rows).gained ELSE 0)
       + Awarded(u, Tail(rows))

C14_ScoreIsSumOfAwards ==
  (\A u \in Users : pendingScore[u] = <<>>)
  => \A p \in gamePlayers : p.score = Awarded(p.user_id, chat)

\* C15: no chat entry is stored as a guess or as correct for the drawer of
\* the stored Playing phase, and a step that stays in the Playing phase
\* leaves its drawer's stored score alone.
C15_DrawerNeverScores ==
  [][game.status = "playing" /\ game'.status = "playing"
     => /\ chat' # chat
           => LET row == chat'[Len(chat')]
              IN row.user_id = game.current_drawer => ~row.is_guess /\ ~row.is_correct
        /\ \A p \in gamePlayers : \A q \in gamePlayers' :
             p.user_id = game.current_drawer /\ q.user_id = p.user_id
             => q.score = p.score]_vars


\* Whether user u has a correct entry created at or after started among
\* the first n stored chat entries.
SolvedSince(u, started, n) ==
  \E i \in 1..n : /\ chat[i].user_id = u
                  /\ chat[i].is_correct
                  /\ chat[i].created_at >= started

\* Whether every participant client state c knows, other than its drawer,
\* has a correct entry of the local Playing phase among its messages.
AllSolved(c) ==
  /\ c.gameStatus = "playing"
  /\ c.currentDrawer # NoUser
  /\ \A p \in c.players :
       p.user_id # c.currentDrawer => p.user_id \in RoundGuessers(c)

\* C17: with a fixed roster the all-guessed effect of a client calls
\* endRound exactly when every participant other than the drawer has a
\* correct chat entry created at or after the start of the Playing phase:
\* not before (a call finds such an entry of every guesser in the store),
\* and not later (no client stays in the Playing phase with such an entry
\* of every guesser among its messages).
C17_AllGuessedExact ==
  /\ detected # NoDetection =>
       \A p \in gamePlayers :
         p.user_id # detected.drawer =>
           SolvedSince(p.user_id, detected.started, detected.entries)
  /\ \A u \in Users : mounted[u] => ~AllSolved(client[u])

\* Whether entry m is among the entries entries.
Delivered(m, entries) == \E i \in DOMAIN entries : entries[i] = m

\* C19: when the chat handler of a client appends a correct entry that is
\* among the client's messages already, the client's correctGuessers and
\* stillGuessing and the stored scores stay as they are.
C19_DuplicateDeliveryIdempotent ==
  [][\A u \in Users :
       /\ mounted[u] /\ feed[u] # <<>>
       /\ Head(feed[u]).t = "chat"
       /\ Delivered(Head(feed[u]).m, client[u].messages)
       /\ client'[u].messages = Append(client[u].messages, Head(feed[u]).m)
       => /\ client'[u].correctGuessers = client[u].correctGuessers
          /\ client'[u].stillGuessing = client[u].stillGuessing
          /\ gamePlayers' = gamePlayers]_vars

C19_Witness ==
  /\ redelivered > 0
  /\ \E u \in Users :
       /\ mounted[u]
       /\ client[u].gameStatus = "playing"
       /\ \E i, j \in DOMAIN client[u].messages :
            /\ i < j
            /\ client[u].messages[i] = client[u].messages[j]
            /\ client[u].messages[i].user_id \in client[u].correctGuessers

\* C18: when the chat handler of a client appends a correct entry created
\* before the start of the client's Playing phase, the client's
\* correctGuessers and stillGuessing stay as they are.
C18_OldEntriesIgnored ==
  [][\A u \in Users :
       \A m \in AnyEntries :
         /\ mounted[u]
         /\ client[u].gameStatus = "playing"
         /\ m.created_at < client[u].currentRoundStartedAt
         /\ client'[u].messages = Append(client[u].messages, m)
         => /\ client'[u].correctGuessers = client[u].correctGuessers
            /\ client'[u].stillGuessing = client[u].stillGuessing]_vars

C18_Witness ==
  \E u \in Users :
    /\ mounted[u]
    /\ client[u].gameStatus = "playing"
    /\ \E i \in DOMAIN client[u].messages :
         /\ client[u].messages[i].created_at < client[u].currentRoundStartedAt
         /\ client[u].messages[i].user_id \in client[u].stillGuessing

C28_StartGameGuarded ==
  [][\A u \in Users :
       /\ StartGame(u)
       /\ game.status # "waiting" \/ Cardinality(gamePlayers) < 2
       => /\ game'.round = game.round
          /\ game'.max_rounds = game.max_rounds
          /\ game'.used_words = game.used_words
          /\ game'.current_drawer = game.current_drawer
          /\ game'.status = game.status]_vars

\* C24: the low-player timeout writes the stored session only when the
\* client's roster and the roster it reads from the store both have at most
\* one participant, and then it stores Finished and nothing else; when the
\* store has two or more participants it changes neither the stored session
\* nor the client.
C24_LowPlayerRecheck ==
  [][\A u \in Users :
       LowPlayerFire(u)
       => /\ game' # game
             => /\ Cardinality(client[u].players) <= 1
                /\ Cardinality(gamePlayers) <= 1
                /\ game.status \in ActivePhases
                /\ game' = [game EXCEPT !.status = "finished"]
          /\ Cardinality(gamePlayers) >= 2
             => game' = game /\ client' = client /\ feed' = feed]_vars

C24_Witness ==
  /\ game.status = "finished"
  /\ game.round <= game.max_rounds
  /\ Cardinality(gamePlayers) = 1
  /\ \E u \in Users :
       /\ mounted[u]
       /\ client[u].gameStatus = "finished"
       /\ client[u].game.status # "finished"
       /\ Cardinality(client[u].players) = 1

\* C27: the session never holds two participant rows of one user, and a
\* user who has a row and enters the room again leaves every stored
\* participant row, the own score and join timestamp included, as it is.
C27_ReentryKeepsRow ==
  /\ [](\A p, q \in gamePlayers : p.user_id = q.user_id => p = q)
  /\ [][\A u \in Users :
          Join(u) /\ (\E p \in gamePlayers : p.user_id = u)
          => gamePlayers' = gamePlayers]_vars

C27_Witness ==
  \E u \in reentered : \E p \in gamePlayers :
    /\ p.user_id = u
    /\ p.score > 0
    /\ p.joined_at = u
    /\ mounted[u]

\* C29: a timer-scheduled action (auto-pick, the round timer's endRound, the
\* 5 s timeout set in endRound, the summary auto transition, the low-player
\* check) that fires after the session left the phase it was scheduled in,
\* in the store as well as in the view of the client that scheduled it,
\* writes nothing to the store.
C29_TimersRecheckPhase ==
  [][\A u \in Users :
       LET Left(phases) == /\ game.status \notin phases
                           /\ client[u].gameStatus \notin phases
       IN /\ WordChoiceTimerExpire(u) /\ Left({"choosing_word"}) => game' = game
          /\ RoundTimerExpire(u) /\ Left({"playing"}) => game' = game
          /\ SummaryTimeoutFire(u) /\ Left({"round_summary"}) => game' = game
          /\ SummaryTimerExpire(u) /\ Left({"round_summary"}) => game' = game
          /\ LowPlayerFire(u) /\ Left(ActivePhases) => game' = game]_vars

\* C30: when the games update of startGame, chooseWord or endRound fails,
\* the calling client's phase, drawer, word and guess-tracking sets are
\* afterwards what they were before the call.
C30_FailedWriteKeepsLocal ==
  [][\A u \in Users :
       StartGameFails(u) \/ ChooseWordFails(u) \/ EndRoundFails(u)
         => /\ client'[u].gameStatus = client[u].gameStatus
            /\ client'[u].currentDrawer = client[u].currentDrawer
            /\ client'[u].currentWord = client[u].currentWord
            /\ client'[u].correctGuessers = client[u].correctGuessers
            /\ client'[u].stillGuessing = client[u].stillGuessing]_vars
\* C26: every chat entry stored as correct carries the announcement and not
\* the guess, and no entry a non-drawer stores during a Playing phase has a
\* text that is, trimmed and in lower case, the word of that phase.
C26_ChatNeverRevealsWord ==
  [][\A i \in (Len(chat) + 1)..Len(chat') :
       /\ chat'[i].is_correct => chat'[i].message = Announcement
       /\ game.status = "playing" /\ chat'[i].user_id # game.current_drawer
            => Trim(ToLowerCase(chat'[i].message)) # ToLowerCase(game.current_word)]_vars
\* C21: only the client of the user stored as current drawer changes the
\* stored drawing: a stroke insert, a clear or an undo of any other client
\* leaves the drawing_strokes rows as they are.
C21_OnlyDrawerChangesDrawing ==
  [][\A u \in Users :
       (DrawStroke(u) \/ ClearCanvas(u) \/ UndoLastStroke(u)) /\ strokes' # strokes
         => u = game.current_drawer]_vars

\* C23: after the drawer's clear no stroke is stored; the drawer's undo on
\* N >= 1 stored strokes leaves the first N - 1 of them in their order, and
\* on no stroke it leaves the store as it is.
C23_ClearAndUndo ==
  [][\A u \in Users :
       u = game.current_drawer
         => /\ ClearCanvas(u) => strokes' = <<>>
            /\ UndoLastStroke(u)
                 => /\ Len(strokes') = IF strokes = <<>> THEN 0 ELSE Len(strokes) - 1
                    /\ \A i \in 1..Len(strokes') : strokes'[i] = strokes[i]]_vars

C23_Witness == strokeSeq = 2 /\ strokes = <<1>>

\* C22: the canvases of two clients that show the stored Playing phase and
\* have handled every stroke notification hold the same strokes in the same
\* order, each of them once, whether the canvas was mounted at the start of
\* the round or later, the drawer's own canvas included.
C22_ReplayMatchesLive ==
  game.status = "playing"
    => \A u, v \in OpenCanvases :
         /\ canvas[u].feed = <<>> /\ canvas[v].feed = <<>>
         /\ canvas[u].fetches = 0 /\ canvas[v].fetches = 0
         /\ client[u].currentDrawer = game.current_drawer
         /\ client[v].currentDrawer = game.current_drawer
         => /\ canvas[u].paths = canvas[v].paths
            /\ \A i, j \in 1..Len(canvas[u].paths) :
                 canvas[u].paths[i] = canvas[u].paths[j] => i = j

\* C32: a chooseWord that changes the games row stores the used words that
\* were stored before plus the chosen word, and no step other than
\* startGame takes a word out of the stored used words.
C32_UsedWordsOnlyGrow ==
  [][/\ \A u \in Users :
          (ChooseWord(u) \/ WordChoiceTimerExpire(u)) /\ game' # game
            => game'.used_words = AppendWord(game.used_words, game'.current_word)
     /\ (\A u \in Users : ~StartGame(u))
          => \A w \in BagToSet(game.used_words) :
               CopiesIn(w, game'.used_words) >= CopiesIn(w, game.used_words)]_vars

\* C31: once no write and no notification of the session is in flight, every connected
\* client shows the phase, the drawer, the word and the turn index of the
\* stored session.
C31_QuiescentClientsAgree ==
  (\A v \in Users : feed[v] = <<>> /\ awaited[v] = NoAwait)
    => \A u \in Users :
         mounted[u]
           => /\ client[u].gameStatus = game.status
              /\ client[u].currentDrawer = game.current_drawer
              /\ client[u].currentWord = game.current_word
              /\ client[u].game.round = game.round

\* C37: the stored strokes become fewer only by a clear or an undo of the
\* stored drawer, or in a step that takes the stored session out of
\* Playing; an endRound that leaves the stored phase as it is deletes none.
C37_StrokesShrinkOnlyAtRoundEnd ==
  [][Len(strokes') < Len(strokes)
       => \/ \E u \in Users : /\ u = game.current_drawer
                              /\ ClearCanvas(u) \/ UndoLastStroke(u)
          \/ game.status = "playing" /\ game'.status # "playing"]_vars

\* C38: the choices a client presents to its drawer in ChoosingWord, from a
\* word list of at least 3 words, are exactly 3 words that differ from one
\* another.
C38_ThreeDistinctChoices ==
  \A u \in Users :
    /\ client[u].gameStatus = "choosing_word"
    /\ client[u].wordChoices # <<>>
    /\ Len(wordList) >= ChoiceCount
    => /\ Len(client[u].wordChoices) = ChoiceCount
       /\ \A i, j \in 1..Len(client[u].wordChoices) :
            client[u].wordChoices[i] = client[u].wordChoices[j] => i = j

\* C33: in every client that shows a Playing phase the sets correctGuessers
\* and stillGuessing are disjoint, together they hold exactly the ids of
\* the client's players, and the drawer is in correctGuessers.
C33_TrackerPartition ==
  \A u \in Users :
    mounted[u] /\ client[u].gameStatus = "playing" /\ client[u].currentDrawer # NoUser
      => /\ client[u].correctGuessers \cap client[u].stillGuessing = {}
         /\ client[u].correctGuessers \cup client[u].stillGuessing = Ids(client[u].players)
         /\ client[u].currentDrawer \in client[u].correctGuessers

\* C34: while the stored session is in a Playing phase, a client that shows
\* that phase and has handled every notification has in correctGuessers
\* every participant whose guess was stored as correct during the phase.
C34_SolversTracked ==
  game.status = "playing"
    => \A i \in 1..Len(chat) :
         /\ chat[i].is_correct
         /\ chat[i].turn = Len(turnsPlayed)
         /\ \E p \in gamePlayers : p.user_id = chat[i].user_id
         => \A u \in Users :
              /\ mounted[u] /\ feed[u] = <<>>
              /\ client[u].gameStatus = "playing"
              => chat[i].user_id \in client[u].correctGuessers
\* C35: a viewer's canvas that has handled a DELETE notification, has no
\* notification left and no fetchAndRenderStrokes under way holds every
\* stored stroke exactly once and no other stroke.
C35_RefetchedCanvasMatchesStore ==
  \A u \in OpenCanvases :
    /\ u # client[u].currentDrawer
    /\ canvas[u].reloaded
    /\ canvas[u].feed = <<>>
    /\ canvas[u].fetches = 0
    => /\ Len(canvas[u].paths) = Len(strokes)
       /\ \A i \in 1..Len(strokes) :
            \E j \in 1..Len(canvas[u].paths) : canvas[u].paths[j] = strokes[i]

\* The first round while the drawer's gestures are shown live.
NextInk ==
  \/ \E u \in Users : StartGame(u)
  \/ \E u \in Users : ChooseWord(u)
  \/ \E u \in Users : Deliver(u)
  \/ \E u \in Users : MouseDown(u)
  \/ \E u \in Users : MouseMove(u)
  \/ \E u \in Users : MouseUp(u)
  \/ \E u \in Users : InkDeliver(u)
  \/ \E u \in Users : InkLost(u)
  \/ Tick

SpecInk == InitCanvas /\ [][NextInk]_vars

\* C36: once no live-ink notice is on its way to a viewer and time has
\* passed since the viewer handled the last one, the viewer's canvas holds
\* no temporary line of a gesture whose draw_end notice the viewer handled
\* or did not get.
C36_TemporaryLinesRemoved ==
  \A v \in OpenCanvases :
    /\ canvas[v].ink = <<>>
    /\ now > canvas[v].lastInk
    => \A i \in 1..Len(canvas[v].lines) : canvas[v].lines[i] \notin canvas[v].ended
\* A participant whose tab is closed.
Absent == NumUsers + 1

\* A room for MaxPlayersOption players that is full: its creator is in it,
\* the other participant is away.
InitLobby ==
  /\ InitRoom({1, Absent}, 1) /\ scoring = NoScoring /\ tracked = FALSE
  /\ wordList = ShortList /\ capacity = MaxInFlight /\ skew = NoSkew

\* Users come and go through the lobby and by the room's address.
NextLobby ==
  \/ \E u \in Users : JoinGameChecks(u)
  \/ \E u \in Users : JoinGameInserts(u)
  \/ \E u \in Users : Join(u)
  \/ \E u \in Users : Leave(u)
  \/ \E u \in Users : Disconnect(u)
  \/ \E u \in Users : Deliver(u)

SpecLobby == InitLobby /\ [][NextLobby]_vars

\* C39: the room never has more game_players rows than its max_players.
C39_RosterWithinMaxPlayers == Cardinality(gamePlayers) <= game.max_players
\* The fill tool on any canvas content.
NextFlood ==
  \/ \E p \in Pixels, fillColor \in FillColours : FloodFill(p[1], p[2], fillColor)
  \/ FloodStep
  \/ FloodDone

SpecFlood == Init /\ [][NextFlood]_vars

\* C40: the work stack of floodFill never holds more than four entries
\* per pixel of the raster, whatever the start pixel and the fill colour,
\* the start pixel's own colour included.
C40_FloodFillStackBounded == Len(fill.stack) <= 4 * Cardinality(Pixels)
====
